---- MODULE Spec2Model ----
(***************************************************************************)
(* Model of the reconciliation core of ibm-user-management-operator:       *)
(*   - the readiness waits of internal/controller/utils/utils.go           *)
(*     (WaitForOperatorReady, WaitForOperandReady, WaitForRediscp,         *)
(*     WaitForDeploymentReady, WaitForJob), each a wait.PollImmediate loop *)
(*     around a condition closure;                                         *)
(*   - the document merge (MergeResources, MergeCR, mergeMetadata,         *)
(*     checkKeyBeforeMerging);                                             *)
(*   - the change detection (CalculateHashes).                             *)
(*                                                                         *)
(* Time is counted in polling intervals.  wait.PollImmediate(interval,     *)
(* timeout, cond) runs cond at once, then on every tick of a ticker of     *)
(* period interval, and, when the timer of the timeout fires, closes the   *)
(* tick channel: the receive on the closed channel runs cond one last time *)
(* and the loop then returns ErrWaitTimeout.  When the timeout is a        *)
(* multiple of the interval the last tick and the timer are due together   *)
(* and either may be served first.  A fetch is taken to complete within    *)
(* one interval, so no tick is dropped.  The loop is not given the         *)
(* caller's context: only the fetch inside cond is.                        *)
(***************************************************************************)
EXTENDS Integers, Sequences, FiniteSets, TLC

VARIABLES
    \* ---- readiness waits (one record field per wait id) ----
    kind,        \* which wait function runs
    param,       \* its caller-supplied argument (compStatus / label)
    ret,         \* the error it returned, "pending" while it polls
    ticks,       \* polling intervals elapsed since the call
    polls,       \* fetches issued so far
    lastFetch,   \* result of the latest fetch
    seen,        \* classes of the fetch results so far
    notReady,    \* fetches so far that returned a target that was not ready
    cancelled,   \* the caller's context was cancelled while polling
    \* ---- document merge ----
    live, template, merged, merged2, mpc,
    \* ---- MergeCR on byte slices ----
    crDefault,   \* the defaultCR argument
    crChanged,   \* the changedCR argument
    crResult,    \* what the call returned, "-" before the call
    \* ---- change detection ----
    hCluster,    \* the fromCluster argument (NilPointer when absent)
    hTemplate,   \* the fromTemplate argument
    hRet,        \* what CalculateHashes returned, NoHashes before the call
    hPrev,       \* the live argument and the return of the call before
    \* ---- a reconciliation pass on one resource ----
    pLive,       \* the live document
    pTemplate,   \* the rendered template
    pHash,       \* what CalculateHashes returned at the start of the pass
    pMerged,     \* what MergeResources returned
    pRecorded,   \* the merged document after SetHashAnnotation
    pRet,        \* what CalculateHashes returns on the next pass
    ppc,         \* position in the pass
    \* ---- GetRedisInfo ----
    redisURL,    \* the argument
    redisRet,    \* what the call returned
    \* ---- image cache (package images) ----
    imageMap,    \* the cache
    environ,     \* the process environment
    initOnce,    \* the sync.Once of Initialize
    ipc,         \* position of each caller
    iret,        \* what the last call of Get or ReplaceInYAML returned
    inits,       \* number of calls of Initialize so far
    fills        \* number of runs of the function given to initOnce.Do

waitVars == <<kind, param, ret, ticks, polls, lastFetch, seen, notReady, cancelled>>
mergeVars == <<live, template, merged, merged2, mpc>>
crVars == <<crDefault, crChanged, crResult>>
hashVars == <<hCluster, hTemplate, hRet, hPrev>>
passVars == <<pLive, pTemplate, pHash, pMerged, pRecorded, pRet, ppc>>
redisVars == <<redisURL, redisRet>>
imageVars == <<imageMap, environ, initOnce, ipc, iret, inits, fills>>
elseVars == <<passVars, redisVars, imageVars>>
vars == <<waitVars, mergeVars, crVars, hashVars, elseVars>>

(***************************************************************************)
(* Bounds of the model.                                                    *)
(***************************************************************************)
\* longest status.services list of a fetched OperandRequest
MaxServices == 2
\* most deployments in a namespace listing
MaxDeployments == 2

WaitIds == {1, 2}

(***************************************************************************)
(* Program constants: resources.OpreqPhaseRunning, OperandStatusReady.     *)
(***************************************************************************)
OpreqPhaseRunning == "Running"
OperandStatusReady == "Ready"

(***************************************************************************)
(* Errors.  ErrNil is Go's nil error.  A fetch fails with NotFound         *)
(* (k8serrors.IsNotFound), with another store error, or, once the caller's *)
(* context is cancelled, with the context's error.                         *)
(***************************************************************************)
ErrNil == "nil"
ErrNotFound == "NotFound"
ErrOther == "InternalError"
ErrCanceled == "context canceled"
ErrWaitTimeout == "timed out waiting for the condition"
Pending == "pending"

IsNotFound(err) == err = ErrNotFound

WaitKinds == {"Operator", "Operand", "Rediscp", "Deployment", "Job"}

\* wait.PollImmediate(interval, timeout, ...) of each wait, in seconds
PollInterval(k) ==
    CASE k = "Operator" -> 30
      [] k = "Operand" -> 60
      [] k = "Rediscp" -> 30
      [] k = "Deployment" -> 20
      [] k = "Job" -> 20

PollTimeout(k) ==
    CASE k = "Operator" -> 10 * 60
      [] k = "Operand" -> 10 * 60
      [] k = "Rediscp" -> 10 * 60
      [] k = "Deployment" -> 10 * 60
      [] k = "Job" -> 2 * 60

\* number of whole intervals in the timeout
MaxTicks(k) == PollTimeout(k) \div PollInterval(k)

(***************************************************************************)
(* What the store hands to a fetch.  A fetch result is [err, obj]; on an   *)
(* error obj is the zero value the closure allocated.                      *)
(***************************************************************************)
RECURSIVE SeqsUpTo(_, _)
\* all sequences over S of length at most n
SeqsUpTo(S, n) ==
    IF n = 0 THEN {<<>>}
    ELSE LET shorter == SeqsUpTo(S, n - 1)
         IN shorter \cup {Append(q, x) : q \in {r \in shorter : Len(r) = n - 1}, x \in S}

\* odlm.OperandRequest: status.phase and status.services[i].status
Phases == {"", "Installing", OpreqPhaseRunning}
ServiceStatuses == {OperandStatusReady, "Failed"}
OperandRequests == [phase : Phases, services : SeqsUpTo(ServiceStatuses, MaxServices)]
ZeroOperandRequest == [phase |-> "", services |-> <<>>]

\* batchv1.Job: status.succeeded
Jobs == [succeeded : 0..2]
ZeroJob == [succeeded |-> 0]

\* the unstructured Redis CR: whether Object["status"] is set, and the value
\* of its redisStatus field (NilValue when the field is missing)
NilValue == "<nil>"
RedisStatuses == {"Completed", "Pending"}
RedisCRs ==
    {[hasStatus |-> FALSE, redisStatus |-> NilValue]}
    \cup [hasStatus : {TRUE}, redisStatus : RedisStatuses \cup {NilValue}]
ZeroRedisCR == [hasStatus |-> FALSE, redisStatus |-> NilValue]

\* appsv1.Deployment: name (a sequence of characters), spec.replicas and
\* status.readyReplicas; a listing holds each name once
DeploymentNames == {<<"a", "b">>, <<"a", "c">>, <<"d">>}
Deployments == {[name |-> n, replicas |-> r[1], readyReplicas |-> r[2]] :
                   n \in DeploymentNames, r \in {<<1, 1>>, <<2, 1>>}}
DeploymentLists ==
    {l \in SeqsUpTo(Deployments, MaxDeployments) :
        \A i, j \in 1..Len(l) : i # j => l[i].name # l[j].name}
ZeroDeploymentList == <<>>

\* WaitForOperatorReady reads the phase only and WaitForOperandReady the
\* services only: the field the wait does not read is held fixed
Objects(k) ==
    CASE k = "Operator" -> {o \in OperandRequests : o.services = <<>>}
      [] k = "Operand" -> {o \in OperandRequests : o.phase = OpreqPhaseRunning}
      [] k = "Rediscp" -> RedisCRs
      [] k = "Deployment" -> DeploymentLists
      [] k = "Job" -> Jobs

ZeroObject(k) ==
    CASE k = "Operator" -> ZeroOperandRequest
      [] k = "Operand" -> ZeroOperandRequest
      [] k = "Rediscp" -> ZeroRedisCR
      [] k = "Deployment" -> ZeroDeploymentList
      [] k = "Job" -> ZeroJob

\* errors a fetch can fail with: Get by name may report NotFound, List of a
\* namespace does not
FetchErrors(k) == IF k = "Deployment" THEN {ErrOther} ELSE {ErrNotFound, ErrOther}

\* k8sClient.Get / k8sClient.List with the caller's ctx: a cancelled context
\* makes the call fail with the context's error
FetchResults(k, ctxCancelled) ==
    IF ctxCancelled
    THEN {[err |-> ErrCanceled, obj |-> ZeroObject(k)]}
    ELSE {[err |-> e, obj |-> ZeroObject(k)] : e \in FetchErrors(k)}
         \cup {[err |-> ErrNil, obj |-> o] : o \in Objects(k)}

NoFetch(k) == [err |-> "none", obj |-> ZeroObject(k)]

\* caller-supplied argument: compStatus of WaitForRediscp, label of
\* WaitForDeploymentReady
Params(k) ==
    CASE k = "Rediscp" -> RedisStatuses
      [] k = "Deployment" -> {<<"a">>}
      [] OTHER -> {""}

(***************************************************************************)
(* The condition closures.  Each returns [done, err] from one fetch.       *)
(***************************************************************************)
HasPrefix(s, prefix) ==
    /\ Len(prefix) <= Len(s)
    /\ SubSeq(s, 1, Len(prefix)) = prefix

CondOperatorReady(f) ==
    IF f.err # ErrNil
    THEN IF IsNotFound(f.err)
         THEN [done |-> FALSE, err |-> ErrNil]
         ELSE [done |-> FALSE, err |-> f.err]
    ELSE IF f.obj.phase = OpreqPhaseRunning
         THEN [done |-> TRUE, err |-> ErrNil]
         ELSE [done |-> FALSE, err |-> ErrNil]

\* AllServicesReady that wants at least one service
AllServicesReady_NonEmpty(services) ==
    /\ Len(services) > 0
    /\ \A i \in 1..Len(services) : services[i] = OperandStatusReady

AllServicesReady(services) ==
    \A i \in 1..Len(services) : services[i] = OperandStatusReady

CondOperandReady(f) ==
    IF f.err # ErrNil
    THEN [done |-> FALSE, err |-> f.err]
    ELSE IF AllServicesReady(f.obj.services)
         THEN [done |-> TRUE, err |-> ErrNil]
         ELSE [done |-> FALSE, err |-> ErrNil]

\* CondRediscp that is content with any status subtree
CondRediscp_AnyStatus(f, compStatus) ==
    IF f.err # ErrNil
    THEN IF IsNotFound(f.err)
         THEN [done |-> FALSE, err |-> ErrNil]
         ELSE [done |-> FALSE, err |-> f.err]
    ELSE IF f.obj.hasStatus
         THEN [done |-> TRUE, err |-> ErrNil]
         ELSE [done |-> FALSE, err |-> ErrNil]

CondRediscp(f, compStatus) ==
    IF f.err # ErrNil
    THEN IF IsNotFound(f.err)
         THEN [done |-> FALSE, err |-> ErrNil]
         ELSE [done |-> FALSE, err |-> f.err]
    ELSE IF f.obj.hasStatus /\ f.obj.redisStatus = compStatus
         THEN [done |-> TRUE, err |-> ErrNil]
         ELSE [done |-> FALSE, err |-> ErrNil]

\* MatchedDeployment without the break: the last match is kept
MatchedDeployment_Last(items, label) ==
    LET hits == {i \in 1..Len(items) : HasPrefix(items[i].name, label)}
    IN IF hits = {} THEN 0 ELSE CHOOSE i \in hits : \A j \in hits : i >= j

\* index of the first deployment whose name starts with label, 0 if none
MatchedDeployment(items, label) ==
    LET hits == {i \in 1..Len(items) : HasPrefix(items[i].name, label)}
    IN IF hits = {} THEN 0 ELSE CHOOSE i \in hits : \A j \in hits : i <= j

CondDeploymentReady(f, label) ==
    IF f.err # ErrNil
    THEN [done |-> FALSE, err |-> ErrNil]
    ELSE LET m == MatchedDeployment(f.obj, label)
         IN IF m = 0
            THEN [done |-> FALSE, err |-> ErrNil]
            ELSE IF f.obj[m].readyReplicas = f.obj[m].replicas
                 THEN [done |-> TRUE, err |-> ErrNil]
                 ELSE [done |-> FALSE, err |-> ErrNil]

\* CondJob with the success test off by one (succeeded > 1)
CondJob_OffByOne(f) ==
    IF f.err # ErrNil
    THEN IF IsNotFound(f.err)
         THEN [done |-> FALSE, err |-> ErrNil]
         ELSE [done |-> FALSE, err |-> f.err]
    ELSE IF f.obj.succeeded > 1
         THEN [done |-> TRUE, err |-> ErrNil]
         ELSE [done |-> FALSE, err |-> ErrNil]

CondJob(f) ==
    IF f.err # ErrNil
    THEN IF IsNotFound(f.err)
         THEN [done |-> FALSE, err |-> ErrNil]
         ELSE [done |-> FALSE, err |-> f.err]
    ELSE IF f.obj.succeeded > 0
         THEN [done |-> TRUE, err |-> ErrNil]
         ELSE [done |-> FALSE, err |-> ErrNil]

Cond(k, p, f) ==
    CASE k = "Operator" -> CondOperatorReady(f)
      [] k = "Operand" -> CondOperandReady(f)
      [] k = "Rediscp" -> CondRediscp(f, p)
      [] k = "Deployment" -> CondDeploymentReady(f, p)
      [] k = "Job" -> CondJob(f)

(***************************************************************************)
(* For the properties: what a fetch result is, independently of what the  *)
(* closure makes of it.  The target of WaitForDeploymentReady is absent    *)
(* when the listing holds no deployment with the prefix.                   *)
(***************************************************************************)
TargetReady(k, p, o) ==
    CASE k = "Operator" -> o.phase = OpreqPhaseRunning
      [] k = "Operand" -> \A i \in 1..Len(o.services) : o.services[i] = OperandStatusReady
      [] k = "Rediscp" -> o.hasStatus /\ o.redisStatus = p
      [] k = "Deployment" ->
            LET m == MatchedDeployment(o, p)
            IN m # 0 /\ o[m].readyReplicas = o[m].replicas
      [] k = "Job" -> o.succeeded > 0

FetchClass(k, p, f) ==
    IF f.err = ErrCanceled THEN "Canceled"
    ELSE IF f.err = ErrNotFound THEN "NotFound"
    ELSE IF f.err # ErrNil THEN "Error"
    ELSE IF k = "Deployment" /\ MatchedDeployment(f.obj, p) = 0 THEN "NotFound"
    ELSE IF TargetReady(k, p, f.obj) THEN "Ready"
    ELSE "NotReady"


(***************************************************************************)
(* The polling loop.                                                       *)
(***************************************************************************)
Idle == "idle"

\* RunCondition with the returned error kept in one variable shared by all
\* the waits in flight
RunCondition_SharedResult(w, f, closing) ==
    LET c == Cond(kind[w], param[w], f)
    IN /\ polls' = [polls EXCEPT ![w] = @ + 1]
       /\ lastFetch' = [lastFetch EXCEPT ![w] = f]
       /\ seen' = [seen EXCEPT ![w] = @ \cup {FetchClass(kind[w], param[w], f)}]
       /\ notReady' = [notReady EXCEPT ![w] =
                         IF FetchClass(kind[w], param[w], f) = "NotReady" THEN @ + 1 ELSE @]
       /\ ret' = [x \in WaitIds |->
                    IF c.err # ErrNil THEN c.err
                    ELSE IF c.done THEN ErrNil
                    ELSE IF closing THEN ErrWaitTimeout
                    ELSE Pending]

\* one run of the condition closure on fetch result f; closing is TRUE for
\* the run on the closed tick channel, after which the loop gives up
RunCondition(w, f, closing) ==
    LET c == Cond(kind[w], param[w], f)
    IN /\ polls' = [polls EXCEPT ![w] = @ + 1]
       /\ lastFetch' = [lastFetch EXCEPT ![w] = f]
       /\ seen' = [seen EXCEPT ![w] = @ \cup {FetchClass(kind[w], param[w], f)}]
       /\ notReady' = [notReady EXCEPT ![w] =
                         IF FetchClass(kind[w], param[w], f) = "NotReady" THEN @ + 1 ELSE @]
       /\ ret' = [ret EXCEPT ![w] =
                    IF c.err # ErrNil THEN c.err
                    ELSE IF c.done THEN ErrNil
                    ELSE IF closing THEN ErrWaitTimeout
                    ELSE Pending]

\* PollFirst of wait.Poll: the first run comes after one interval
PollFirst_AfterInterval(w) ==
    /\ ret[w] = Pending
    /\ polls[w] = 0
    /\ ticks' = [ticks EXCEPT ![w] = @ + 1]
    /\ \E f \in FetchResults(kind[w], cancelled[w]) : RunCondition(w, f, FALSE)
    /\ UNCHANGED <<kind, param, cancelled, mergeVars, crVars, hashVars, elseVars>>

\* wait.PollImmediate: the condition runs once before any interval elapses
PollFirst(w) ==
    /\ ret[w] = Pending
    /\ polls[w] = 0
    /\ \E f \in FetchResults(kind[w], cancelled[w]) : RunCondition(w, f, FALSE)
    /\ UNCHANGED <<kind, param, ticks, cancelled, mergeVars, crVars, hashVars, elseVars>>

\* the ticker fires: one more interval has elapsed, the condition runs
PollTick(w) ==
    /\ ret[w] = Pending
    /\ polls[w] > 0
    /\ ticks[w] < MaxTicks(kind[w])
    /\ ticks' = [ticks EXCEPT ![w] = @ + 1]
    /\ \E f \in FetchResults(kind[w], cancelled[w]) : RunCondition(w, f, FALSE)
    /\ UNCHANGED <<kind, param, cancelled, mergeVars, crVars, hashVars, elseVars>>

\* the timer of the timeout fires and the tick channel is closed: the
\* condition runs a last time, then the loop returns ErrWaitTimeout
PollTimedOut(w) ==
    /\ ret[w] = Pending
    /\ polls[w] > 0
    /\ ticks[w] >= MaxTicks(kind[w]) - 1
    /\ ticks' = [ticks EXCEPT ![w] = MaxTicks(kind[w])]
    /\ \E f \in FetchResults(kind[w], cancelled[w]) : RunCondition(w, f, TRUE)
    /\ UNCHANGED <<kind, param, cancelled, mergeVars, crVars, hashVars, elseVars>>

\* the caller cancels the context it passed to the wait
CancelContext(w) ==
    /\ ret[w] = Pending
    /\ ~cancelled[w]
    /\ cancelled' = [cancelled EXCEPT ![w] = TRUE]
    /\ UNCHANGED <<kind, param, ret, ticks, polls, lastFetch, seen, notReady, mergeVars, crVars, hashVars, elseVars>>

WaitStep(w) == PollFirst(w) \/ PollTick(w) \/ PollTimedOut(w)

MergeIdle ==
    /\ live = "-" /\ template = "-" /\ merged = "-" /\ merged2 = "-"
    /\ mpc = "off"

\* MergeCR is not called
CRIdle == crDefault = "-" /\ crChanged = "-" /\ crResult = "-"

\* CalculateHashes is not called
NoHashes ==
    [clusterHash |-> "", templateHash |-> "", err |-> FALSE, panic |-> FALSE,
     cluster |-> <<"-">>, template |-> <<"-">>]
NoCall == [cluster |-> <<"-">>, ret |-> NoHashes]
HashIdle == hCluster = "-" /\ hTemplate = "-" /\ hRet = NoHashes /\ hPrev = NoCall

\* no pass runs
PassIdle ==
    /\ pLive = "-" /\ pTemplate = "-" /\ pHash = NoHashes /\ pMerged = "-"
    /\ pRecorded = "-" /\ pRet = NoHashes /\ ppc = "off"

\* GetRedisInfo is not called
NoInfo == [hostname |-> "-", port |-> "-", err |-> FALSE]
RedisIdle == redisURL = "-" /\ redisRet = NoInfo

\* package images is not used
ImagesIdle ==
    /\ imageMap = "-" /\ environ = "-" /\ initOnce = "-" /\ ipc = "-"
    /\ iret = "-" /\ inits = 0 /\ fills = 0

ElseIdle == PassIdle /\ RedisIdle /\ ImagesIdle

\* one wait is called (wait 1), with any of the five functions
Init ==
    /\ \E k \in WaitKinds : \E p \in Params(k) :
          /\ kind = [w \in WaitIds |-> k]
          /\ param = [w \in WaitIds |-> p]
          /\ lastFetch = [w \in WaitIds |-> NoFetch(k)]
    /\ ret = [w \in WaitIds |-> IF w = 1 THEN Pending ELSE Idle]
    /\ ticks = [w \in WaitIds |-> 0]
    /\ polls = [w \in WaitIds |-> 0]
    /\ seen = [w \in WaitIds |-> {}]
    /\ notReady = [w \in WaitIds |-> 0]
    /\ cancelled = [w \in WaitIds |-> FALSE]
    /\ MergeIdle
    /\ CRIdle
    /\ HashIdle
    /\ ElseIdle

Next ==
    \/ \E w \in WaitIds : PollFirst(w)
    \/ \E w \in WaitIds : PollTick(w)
    \/ \E w \in WaitIds : PollTimedOut(w)
    \/ \E w \in WaitIds : CancelContext(w)

Spec == Init /\ [][Next]_vars

\* the goroutine of a wait keeps running: time passes and the loop is served
FairSpec == Spec /\ \A w \in WaitIds : WF_vars(WaitStep(w))

\* two waits run concurrently on different locators: WaitForOperatorReady
\* (wait 1) and WaitForJob (wait 2), neither cancelled
PairInit ==
    /\ kind = [w \in WaitIds |-> IF w = 1 THEN "Operator" ELSE "Job"]
    /\ param = [w \in WaitIds |-> ""]
    /\ lastFetch = [w \in WaitIds |-> NoFetch(IF w = 1 THEN "Operator" ELSE "Job")]
    /\ ret = [w \in WaitIds |-> Pending]
    /\ ticks = [w \in WaitIds |-> 0]
    /\ polls = [w \in WaitIds |-> 0]
    /\ seen = [w \in WaitIds |-> {}]
    /\ notReady = [w \in WaitIds |-> 0]
    /\ cancelled = [w \in WaitIds |-> FALSE]
    /\ MergeIdle
    /\ CRIdle
    /\ HashIdle
    /\ ElseIdle

PairNext ==
    \/ \E w \in WaitIds : PollFirst(w)
    \/ \E w \in WaitIds : PollTick(w)
    \/ \E w \in WaitIds : PollTimedOut(w)

PairSpec == PairInit /\ [][PairNext]_vars

Terminal(w) == ret[w] \notin {Pending, Idle}
Succeeded(w) == ret[w] = ErrNil
TimedOut(w) == ret[w] = ErrWaitTimeout
Errored(w) == Terminal(w) /\ ~Succeeded(w) /\ ~TimedOut(w)


(***************************************************************************)
(* Documents.  A value of a decoded document (Go interface{}) is a tagged  *)
(* tuple:                                                                  *)
(*   <<"n">>        nil (JSON null, and what indexing a map with a missing *)
(*                  key yields)                                            *)
(*   <<"s", x>>     string                                                 *)
(*   <<"i", x>>     int64 (only in documents that were never serialized)   *)
(*   <<"f", x>>     float64 (every number of a decoded JSON text)          *)
(*   <<"c">>        a value of a kind no encoder supports (a channel)      *)
(*   <<"e">>        a value whose own marshal method returns an error      *)
(*   <<"m", f>>     map[string]interface{}, f a function on its keys       *)
(*   <<"q", q>>     []interface{}, q a sequence                            *)
(***************************************************************************)
Null == <<"n">>
Str(x) == <<"s", x>>
Int64(x) == <<"i", x>>
Float64(x) == <<"f", x>>
Chan == <<"c">>
Failing == <<"e">>
Map(f) == <<"m", f>>
List(q) == <<"q", q>>

IsNil(v) == v[1] = "n"
IsMap(v) == v[1] = "m"
IsSeq(v) == v[1] = "q"

EmptyMap == [k \in {} |-> Null]

\* m[k] on a Go map: nil when the key is missing
Lookup(f, k) == IF k \in DOMAIN f THEN f[k] ELSE Null

\* equality.Semantic.DeepEqual on decoded values: structural equality
DeepEqual(a, b) == a = b

\* f with key k set to v
SetKey(f, k, v) == [x \in DOMAIN f \cup {k} |-> IF x = k THEN v ELSE f[x]]

(***************************************************************************)
(* encoding/json.  Marshal of a document yields its JSON text, modelled as *)
(* <<"json", v>> with v the value the text denotes (numbers lose their Go  *)
(* type), or fails on a value that cannot be serialized.  A byte slice is  *)
(* also <<"empty">> (length 0) or <<"invalid">> (not JSON).                *)
(***************************************************************************)
RECURSIVE Serializable(_)
Serializable(v) ==
    CASE v[1] \in {"c", "e"} -> FALSE
      [] v[1] = "m" -> \A k \in DOMAIN v[2] : Serializable(v[2][k])
      [] v[1] = "q" -> \A i \in 1..Len(v[2]) : Serializable(v[2][i])
      [] OTHER -> TRUE

RECURSIVE JSONValue(_)
\* the value a JSON text of v decodes to
JSONValue(v) ==
    CASE v[1] = "i" -> Float64(v[2])
      [] v[1] = "m" -> Map([k \in DOMAIN v[2] |-> JSONValue(v[2][k])])
      [] v[1] = "q" -> List([i \in 1..Len(v[2]) |-> JSONValue(v[2][i])])
      [] OTHER -> v

EmptyBytes == <<"empty">>
InvalidBytes == <<"invalid">>

\* json.Marshal(obj.Object)
Marshal(v) ==
    IF Serializable(v)
    THEN [err |-> FALSE, bytes |-> <<"json", JSONValue(v)>>]
    ELSE [err |-> TRUE, bytes |-> EmptyBytes]

\* json.Unmarshal given the map instead of a pointer to it: an error, and
\* the caller's map stays empty
Unmarshal_ByValue(bytes) == [err |-> TRUE, m |-> EmptyMap, nil |-> FALSE]

\* json.Unmarshal(bytes, &m) into a fresh empty map: the text of an object
\* fills the map; the text null sets the map to nil without an error (nil
\* reads as an empty map, a write to it panics); any other text (a syntax
\* error, or a value that is not an object) is an error and leaves the map
\* empty
Unmarshal(bytes) ==
    IF bytes[1] = "json" /\ IsMap(bytes[2])
    THEN [err |-> FALSE, m |-> bytes[2][2], nil |-> FALSE]
    ELSE IF bytes[1] = "json" /\ IsNil(bytes[2])
    THEN [err |-> FALSE, m |-> EmptyMap, nil |-> TRUE]
    ELSE [err |-> TRUE, m |-> EmptyMap, nil |-> FALSE]

(***************************************************************************)
(* checkKeyBeforeMerging(key, defaultMap, changedMap, finalMap).  In every *)
(* call changedMap is finalMap[key], so the function is modelled by what   *)
(* it does to that entry:                                                  *)
(*   <<"keep">>    finalMap[key] is left as it is (set or missing)         *)
(*   <<"set", v>>  finalMap[key] is v afterwards                           *)
(*   <<"panic">>   a type assertion failed                                 *)
(***************************************************************************)
Keep == <<"keep">>
Panic == <<"panic">>
Set(v) == <<"set", v>>

RECURSIVE checkKeyBeforeMerging(_, _)
RECURSIVE MergeKeys(_, _)
RECURSIVE MergeItems(_, _)

\* the loop over the keys of defaultVal on the map changedVal, in place:
\* <<"ok", f>> with f the map afterwards, or Panic
MergeKeys(defaultVal, changedVal) ==
    LET slot(k) == checkKeyBeforeMerging(defaultVal[k], Lookup(changedVal, k))
        written == {k \in DOMAIN defaultVal : slot(k)[1] = "set"}
    IN IF \E k \in DOMAIN defaultVal : slot(k) = Panic
       THEN Panic
       ELSE <<"ok", [k \in DOMAIN changedVal \cup written |->
                        IF k \in written THEN slot(k)[2] ELSE changedVal[k]]>>

\* MergeItems that appends the live elements the template slice has no
\* index for
MergeItems_Append(defaultVal, changedVal) ==
    <<"ok", changedVal \o SubSeq(defaultVal, Len(changedVal) + 1, Len(defaultVal))>>

\* MergeItems merging two slices by appending the one to the other
MergeItems_Concat(defaultVal, changedVal) == <<"ok", changedVal \o defaultVal>>

\* the loop over the indexes of the slice defaultVal on the slice
\* changedVal, in place: <<"ok", q>> or Panic
MergeItems(defaultVal, changedVal) ==
    LET touched == {i \in 1..Len(defaultVal) :
                       /\ IsMap(defaultVal[i])
                       /\ Len(changedVal) >= i
                       /\ DOMAIN defaultVal[i][2] # {}}
        item(i) == IF IsMap(changedVal[i])
                   THEN MergeKeys(defaultVal[i][2], changedVal[i][2])
                   ELSE Panic
    IN IF \E i \in touched : item(i) = Panic
       THEN Panic
       ELSE <<"ok", [i \in 1..Len(changedVal) |->
                        IF i \in touched THEN Map(item(i)[2]) ELSE changedVal[i]]>>

checkKeyBeforeMerging(defaultMap, changedMap) ==
    IF DeepEqual(defaultMap, changedMap)
    THEN Keep
    ELSE CASE IsMap(defaultMap) ->
                IF IsNil(changedMap)
                THEN Set(defaultMap)
                ELSE IF IsMap(changedMap)
                     THEN LET r == MergeKeys(defaultMap[2], changedMap[2])
                          IN IF r = Panic THEN Panic ELSE Set(Map(r[2]))
                     ELSE Keep
           [] IsSeq(defaultMap) ->
                IF IsNil(changedMap)
                THEN Set(defaultMap)
                ELSE IF IsSeq(changedMap)
                     THEN LET r == MergeItems(defaultMap[2], changedMap[2])
                          IN IF r = Panic THEN Panic ELSE Set(List(r[2]))
                     ELSE Keep
           [] OTHER ->
                IF IsNil(changedMap) THEN Set(defaultMap) ELSE Keep

(***************************************************************************)
(* mergeMetadata(defaultCRDecoded, changedCRDecoded), on the maps as the   *)
(* key loop left them: returns changedCRDecoded afterwards.                *)
(***************************************************************************)
\* the labels / annotations block for one field of the two metadata maps
MergeMetaField(defaultMeta, changedMeta, field) ==
    LET d == Lookup(defaultMeta, field)
        c == Lookup(changedMeta, field)
    IN IF IsMap(d)
       THEN IF IsMap(c)
            THEN SetKey(changedMeta, field,
                        Map([k \in DOMAIN c[2] \cup DOMAIN d[2] |->
                                IF k \in DOMAIN d[2] THEN d[2][k] ELSE c[2][k]]))
            ELSE SetKey(changedMeta, field, d)
       ELSE changedMeta

mergeMetadata(defaultCRDecoded, changedCRDecoded) ==
    LET defaultMeta == Lookup(defaultCRDecoded, "metadata")
        changedMeta == Lookup(changedCRDecoded, "metadata")
    IN IF IsMap(defaultMeta)
       THEN IF IsMap(changedMeta)
            THEN SetKey(changedCRDecoded, "metadata",
                        Map(MergeMetaField(defaultMeta[2],
                                MergeMetaField(defaultMeta[2], changedMeta[2], "labels"),
                                "annotations")))
            ELSE SetKey(changedCRDecoded, "metadata", defaultMeta)
       ELSE changedCRDecoded

(***************************************************************************)
(* MergeCR(defaultCR, changedCR []byte) map[string]interface{}:            *)
(* <<"ok", f, n>> with f the returned map and n whether it is the nil map, *)
(* or Panic.                                                               *)
(***************************************************************************)
\* MergeCR returning the fresh empty map whatever it is given
MergeCR_Empty(defaultCR, changedCR) == <<"ok", EmptyMap, FALSE>>

MergeCR(defaultCR, changedCR) ==
    IF defaultCR = EmptyBytes /\ changedCR = EmptyBytes
    THEN <<"ok", EmptyMap, FALSE>>
    ELSE IF defaultCR # EmptyBytes /\ changedCR = EmptyBytes
    THEN <<"ok", Unmarshal(defaultCR).m, Unmarshal(defaultCR).nil>>
    ELSE IF defaultCR = EmptyBytes /\ changedCR # EmptyBytes
    THEN <<"ok", Unmarshal(changedCR).m, Unmarshal(changedCR).nil>>
    ELSE LET defaultCRDecoded == Unmarshal(defaultCR).m
             changedCRDecoded == Unmarshal(changedCR).m
             r == MergeKeys(defaultCRDecoded, changedCRDecoded)
         IN IF r = Panic
            THEN Panic
            ELSE IF Unmarshal(changedCR).nil /\ r[2] # EmptyMap
            THEN Panic    \* finalMap[key] = defaultVal on the nil map
            ELSE <<"ok", mergeMetadata(defaultCRDecoded, r[2]), Unmarshal(changedCR).nil>>

(***************************************************************************)
(* MergeResources(fromCluster, fromTemplate): [err, panic, obj, cluster,   *)
(* template], obj the Object of the returned resource (Null when none is   *)
(* returned), cluster and template the Objects of the two arguments after  *)
(* the call.  The arguments are only read, by json.Marshal: MergeCR works  *)
(* on the maps it decodes from the two byte slices.                        *)
(***************************************************************************)
\* MergeResources merging into the template's own Object
MergeResources_InPlace(fromCluster, fromTemplate) ==
    LET c == Marshal(fromCluster)
        t == Marshal(fromTemplate)
    IN IF c.err \/ t.err
       THEN [err |-> TRUE, panic |-> FALSE, obj |-> Null,
             cluster |-> fromCluster, template |-> fromTemplate]
       ELSE LET mergedResource == MergeCR(c.bytes, t.bytes)
            IN IF mergedResource = Panic
               THEN [err |-> FALSE, panic |-> TRUE, obj |-> Null,
                     cluster |-> fromCluster, template |-> fromTemplate]
               ELSE [err |-> FALSE, panic |-> FALSE, obj |-> Map(mergedResource[2]),
                     cluster |-> fromCluster, template |-> Map(mergedResource[2])]

MergeResources(fromCluster, fromTemplate) ==
    LET c == Marshal(fromCluster)
        t == Marshal(fromTemplate)
    IN IF c.err \/ t.err
       THEN [err |-> TRUE, panic |-> FALSE, obj |-> Null,
             cluster |-> fromCluster, template |-> fromTemplate]
       ELSE LET mergedResource == MergeCR(c.bytes, t.bytes)
            IN IF mergedResource = Panic
               THEN [err |-> FALSE, panic |-> TRUE, obj |-> Null,
                     cluster |-> fromCluster, template |-> fromTemplate]
               ELSE [err |-> FALSE, panic |-> FALSE, obj |-> Map(mergedResource[2]),
                     cluster |-> fromCluster, template |-> fromTemplate]

(***************************************************************************)
(* The documents the merge is run on.                                      *)
(***************************************************************************)
\* longest sequence in a document
MaxSeqLen == 2

DocKeys == {"a", "b"}
Leaves == {Null, Str("1"), Str("2")}

\* all maps from a subset of keys to values of vals
MapsOver(keys, vals) == UNION {[d -> vals] : d \in SUBSET keys}

\* mappings of leaves
LeafMaps == {Map(f) : f \in MapsOver(DocKeys, Leaves)}

\* elements of sequences: scalars, null and small mappings
Items ==
    {Null, Str("1"), Map(EmptyMap)}
    \cup {Map([k \in {"a"} |-> v]) : v \in {Null, Str("1"), Str("2")}}
    \cup {Map([k \in {"b"} |-> Str("1")])}

Lists == {List(q) : q \in SeqsUpTo(Items, MaxSeqLen)}

\* mappings that hold a mapping
NestedMaps == {Map([k \in {"a"} |-> m]) : m \in LeafMaps}

\* values of the spec section
SpecValues == Leaves \cup LeafMaps \cup Lists \cup NestedMaps

\* label and annotation maps
LabelMaps == {Map(f) : f \in MapsOver(DocKeys, {Str("1"), Str("2")})}
AnnotationMaps == {Map(f) : f \in MapsOver({"a"}, {Str("1"), Str("2")})}

\* metadata sections: labels and annotations each missing, null or a map
Metadatas ==
    {Null}
    \cup {Map(f) : f \in UNION {[d -> {Null} \cup LabelMaps] : d \in SUBSET {"labels"}}}
    \cup {Map(f) : f \in UNION {[d -> {Null} \cup AnnotationMaps] : d \in SUBSET {"annotations"}}}
    \cup {Map([k \in {"labels", "annotations"} |->
                  IF k = "labels" THEN l ELSE a]) :
             l \in {m \in LabelMaps : DOMAIN m[2] # DocKeys}, a \in AnnotationMaps \ {Map(EmptyMap)}}

\* documents that differ in their spec section, documents that differ in
\* their metadata, and documents with values only a resource built in
\* memory holds (an int64, a channel)
Docs ==
    {Map(EmptyMap)}
    \cup {Map([k \in {"spec"} |-> v]) : v \in SpecValues}
    \cup {Map([k \in {"metadata"} |-> v]) : v \in Metadatas}
    \cup {Map([k \in {"spec"} |-> Map([j \in {"a"} |-> Int64(1)])]),
          Map([k \in {"spec"} |-> Map([j \in {"a"} |-> Chan])]),
          Map([k \in {"metadata", "spec"} |->
                  IF k = "spec" THEN Map([j \in {"b"} |-> Str("1")])
                  ELSE Map([j \in {"labels"} |-> Map([i \in {"a"} |-> Str("1")])])])}

(***************************************************************************)
(* A reconciliation pass merges the live document with the template, and   *)
(* a second pass merges the result with the same template again.           *)
(***************************************************************************)
NoResult == [err |-> FALSE, panic |-> FALSE, obj |-> Null, cluster |-> Null, template |-> Null]

WaitsIdle ==
    /\ kind = [w \in WaitIds |-> "Job"]
    /\ param = [w \in WaitIds |-> ""]
    /\ lastFetch = [w \in WaitIds |-> NoFetch("Job")]
    /\ ret = [w \in WaitIds |-> Idle]
    /\ ticks = [w \in WaitIds |-> 0]
    /\ polls = [w \in WaitIds |-> 0]
    /\ seen = [w \in WaitIds |-> {}]
    /\ notReady = [w \in WaitIds |-> 0]
    /\ cancelled = [w \in WaitIds |-> FALSE]

MergeInit ==
    /\ live \in Docs
    /\ template \in Docs
    /\ merged = NoResult
    /\ merged2 = NoResult
    /\ mpc = "start"
    /\ WaitsIdle
    /\ CRIdle
    /\ HashIdle
    /\ ElseIdle

\* merged, err := MergeResources(live, template)
MergePass ==
    /\ mpc = "start"
    /\ merged' = MergeResources(live, template)
    /\ mpc' = "merged"
    /\ UNCHANGED <<live, template, merged2, waitVars, crVars, hashVars, elseVars>>

\* the next pass: MergeResources(merged, template)
MergeAgain ==
    /\ mpc = "merged"
    /\ ~merged.err /\ ~merged.panic
    /\ merged2' = MergeResources(merged.obj, template)
    /\ mpc' = "remerged"
    /\ UNCHANGED <<live, template, merged, waitVars, crVars, hashVars, elseVars>>

\* the same two documents merged the other way round:
\* MergeResources(template, live)
MergeSwapped ==
    /\ mpc = "merged"
    /\ merged2' = MergeResources(template, live)
    /\ mpc' = "swapped"
    /\ UNCHANGED <<live, template, merged, waitVars, crVars, hashVars, elseVars>>

MergeNext == MergePass \/ MergeAgain \/ MergeSwapped

MergeSpec == MergeInit /\ [][MergeNext]_vars

(***************************************************************************)
(* MergeCR called on two byte slices: each is empty, not JSON, the JSON    *)
(* text of a value that is not an object (null, an array), or the JSON     *)
(* text of a document.                                                     *)
(***************************************************************************)
NullText == <<"json", Null>>
ArrayText == <<"json", List(<<Str("1")>>)>>
DocTexts == {Marshal(d).bytes : d \in {x \in Docs : Serializable(x)}}
ByteSlices == {EmptyBytes, InvalidBytes, NullText, ArrayText} \cup DocTexts

CRInit ==
    /\ crDefault \in ByteSlices
    /\ crChanged \in ByteSlices
    /\ crResult = "-"
    /\ WaitsIdle
    /\ MergeIdle
    /\ HashIdle
    /\ ElseIdle

\* result := MergeCR(defaultCR, changedCR)
CallMergeCR ==
    /\ crResult = "-"
    /\ crResult' = MergeCR(crDefault, crChanged)
    /\ UNCHANGED <<crDefault, crChanged, waitVars, mergeVars, hashVars, elseVars>>

CRNext == CallMergeCR

CRSpec == CRInit /\ [][CRNext]_vars

(***************************************************************************)
(* Change detection.  CalculateHashes serializes the template with         *)
(* gopkg.in/yaml.v2, hashes the text with SHA-256 and returns the first    *)
(* seven bytes of the digest in hexadecimal, next to the fingerprint the   *)
(* live resource carries in its annotations.                               *)
(*                                                                         *)
(* yaml.Marshal writes the keys of a map in sorted order, so the text is a *)
(* function of the document's content; it writes an int64 and a float64 of *)
(* the same value alike.  It returns an error when a value's own marshal   *)
(* method fails, and panics ("cannot marshal type") on a value of a kind   *)
(* it does not support, such as a channel.                                 *)
(***************************************************************************)
HashedData == "operator.ibm.com/ibm-user-management-operator.hashedData"

\* a nil *unstructured.Unstructured
NilPointer == <<"nilptr">>

\* the keys of the documents, in the order yaml.Marshal writes them
SortedKeys == <<"a", "annotations", "b", "labels", "metadata", HashedData, "spec">>
KeysInOrder(f) == SelectSeq(SortedKeys, LAMBDA k : k \in DOMAIN f)

\* the first entry of a sequence of outcomes that is not "ok"
FirstFault(outcomes) ==
    LET bad == {i \in 1..Len(outcomes) : outcomes[i] # "ok"}
    IN IF bad = {} THEN "ok"
       ELSE outcomes[CHOOSE i \in bad : \A j \in bad : i <= j]

RECURSIVE YAMLFault(_)
\* how encoding v ends: "ok", "err" (a marshal method failed) or "panic"
\* (a kind the encoder does not support), whichever comes first
YAMLFault(v) ==
    CASE v[1] = "c" -> "panic"
      [] v[1] = "e" -> "err"
      [] v[1] = "m" -> LET keys == KeysInOrder(v[2])
                       IN FirstFault([i \in 1..Len(keys) |-> YAMLFault(v[2][keys[i]])])
      [] v[1] = "q" -> FirstFault([i \in 1..Len(v[2]) |-> YAMLFault(v[2][i])])
      [] OTHER -> "ok"

RECURSIVE YAMLValue(_)
\* the value the YAML text of v denotes: numbers lose their Go type
YAMLValue(v) ==
    CASE v[1] \in {"i", "f"} -> <<"num", v[2]>>
      [] v[1] = "m" -> <<"m", [k \in DOMAIN v[2] |-> YAMLValue(v[2][k])]>>
      [] v[1] = "q" -> <<"q", [i \in 1..Len(v[2]) |-> YAMLValue(v[2][i])]>>
      [] OTHER -> v

\* yaml.Marshal(obj.Object)
YAMLMarshal(v) ==
    [err |-> YAMLFault(v) = "err",
     panic |-> YAMLFault(v) = "panic",
     text |-> IF YAMLFault(v) = "ok" THEN <<"yaml", YAMLValue(v)>> ELSE EmptyBytes]

(***************************************************************************)
(* sha256.Sum256 is modelled by a digest of the same shape: a function     *)
(* from a text to 32 bytes, computed from every key and value of the text. *)
(***************************************************************************)
DigestModulus == 65521
DigestSize == 32
HashPrefix == 7

StrCode(x) ==
    CASE x = "1" -> 49
      [] x = "2" -> 50
      [] x = "a" -> 97
      [] x = "b" -> 98
      [] OTHER -> 100 + Len(x)

RECURSIVE Mix(_, _, _)
Mix(codes, acc, mult) ==
    IF codes = <<>> THEN acc
    ELSE Mix(Tail(codes), (acc * mult + Head(codes)) % DigestModulus, mult)

RECURSIVE Code(_)
Code(v) ==
    CASE v[1] = "n" -> 1
      [] v[1] = "s" -> (3 + 31 * StrCode(v[2])) % DigestModulus
      [] v[1] = "num" -> (5 + 37 * v[2]) % DigestModulus
      [] v[1] = "m" -> LET keys == KeysInOrder(v[2])
                       IN Mix([i \in 1..Len(keys) |->
                                  (17 * StrCode(keys[i]) + Code(v[2][keys[i]])) % DigestModulus],
                              7, 131)
      [] v[1] = "q" -> Mix([i \in 1..Len(v[2]) |-> Code(v[2][i])], 11, 137)
      [] OTHER -> 13

Sum256(data) ==
    LET c == Code(data[2])
    IN [i \in 1..DigestSize |->
           IF i % 2 = 1
           THEN ((c % 256) * (2 * i + 1) + 89 * i) % 256
           ELSE ((c \div 256) * (2 * i + 1) + 89 * i) % 256]

HexDigits == "0123456789abcdef"
HexByte(b) ==
    SubSeq(HexDigits, (b \div 16) + 1, (b \div 16) + 1)
        \o SubSeq(HexDigits, (b % 16) + 1, (b % 16) + 1)

RECURSIVE EncodeToString(_)
\* hex.EncodeToString
EncodeToString(bytes) ==
    IF bytes = <<>> THEN "" ELSE HexByte(Head(bytes)) \o EncodeToString(Tail(bytes))

\* templateHashStr of the whole digest instead of its first seven bytes
TemplateHashStr_Whole(templateData) == EncodeToString(Sum256(templateData))

\* hex.EncodeToString(templateHash[:7]) of sha256.Sum256(templateData)
TemplateHashStr(templateData) ==
    EncodeToString(SubSeq(Sum256(templateData), 1, HashPrefix))

(***************************************************************************)
(* Unstructured.GetAnnotations: the metadata.annotations map when it is a  *)
(* map of strings, nil otherwise.  [nil, m] with m a function from the     *)
(* keys to the strings.                                                    *)
(***************************************************************************)
NilAnnotations == [nil |-> TRUE, m |-> EmptyMap]

\* GetAnnotations reading metadata.labels
GetAnnotations_Labels(obj) ==
    LET meta == Lookup(obj[2], "metadata")
        annos == IF IsMap(meta) THEN Lookup(meta[2], "labels") ELSE Null
    IN IF IsMap(annos) /\ \A k \in DOMAIN annos[2] : annos[2][k][1] = "s"
       THEN [nil |-> FALSE, m |-> [k \in DOMAIN annos[2] |-> annos[2][k][2]]]
       ELSE NilAnnotations

GetAnnotations(obj) ==
    LET meta == Lookup(obj[2], "metadata")
        annos == IF IsMap(meta) THEN Lookup(meta[2], "annotations") ELSE Null
    IN IF IsMap(annos) /\ \A k \in DOMAIN annos[2] : annos[2][k][1] = "s"
       THEN [nil |-> FALSE, m |-> [k \in DOMAIN annos[2] |-> annos[2][k][2]]]
       ELSE NilAnnotations

(***************************************************************************)
(* SetHashAnnotation(obj, hash): the annotations GetAnnotations returns    *)
(* (none when it returns nil), with the fingerprint key set, written back  *)
(* as metadata.annotations; nothing is written when metadata is present    *)
(* and is not a map.                                                       *)
(***************************************************************************)
SetHashAnnotation(obj, hash) ==
    LET got == GetAnnotations(obj)
        old == IF got.nil THEN EmptyMap ELSE got.m
        annotations == [k \in DOMAIN old \cup {HashedData} |->
                           IF k = HashedData THEN Str(hash) ELSE Str(old[k])]
        meta == Lookup(obj[2], "metadata")
    IN IF "metadata" \in DOMAIN obj[2] /\ ~IsMap(meta)
       THEN obj
       ELSE Map(SetKey(obj[2], "metadata",
                Map(SetKey(IF IsMap(meta) THEN meta[2] ELSE EmptyMap,
                           "annotations", Map(annotations)))))

(***************************************************************************)
(* CalculateHashes(fromCluster, fromTemplate): [clusterHash, templateHash, *)
(* err, panic, cluster, template], cluster and template the two arguments  *)
(* after the call.  Both are only read: yaml.Marshal reads the template's  *)
(* Object and GetAnnotations returns a copy of the live annotations.       *)
(***************************************************************************)
\* CalculateHashes recording the new fingerprint on the template
CalculateHashes_Annotate(fromCluster, fromTemplate) ==
    LET y == YAMLMarshal(fromTemplate)
    IN IF y.panic
       THEN [clusterHash |-> "", templateHash |-> "", err |-> FALSE, panic |-> TRUE,
             cluster |-> fromCluster, template |-> fromTemplate]
       ELSE IF y.err
       THEN [clusterHash |-> "", templateHash |-> "", err |-> TRUE, panic |-> FALSE,
             cluster |-> fromCluster, template |-> fromTemplate]
       ELSE [clusterHash |->
                 IF fromCluster # NilPointer
                    /\ ~GetAnnotations(fromCluster).nil
                    /\ HashedData \in DOMAIN GetAnnotations(fromCluster).m
                 THEN GetAnnotations(fromCluster).m[HashedData]
                 ELSE "",
             templateHash |-> TemplateHashStr(y.text),
             err |-> FALSE, panic |-> FALSE,
             cluster |-> fromCluster,
             template |-> SetHashAnnotation(fromTemplate, TemplateHashStr(y.text))]

CalculateHashes(fromCluster, fromTemplate) ==
    LET y == YAMLMarshal(fromTemplate)
        templateHashStr == TemplateHashStr(y.text)
        clusterAnnos == GetAnnotations(fromCluster)
        clusterHash == IF ~clusterAnnos.nil /\ HashedData \in DOMAIN clusterAnnos.m
                       THEN clusterAnnos.m[HashedData]
                       ELSE ""
    IN IF fromTemplate = NilPointer \/ y.panic
       THEN [clusterHash |-> "", templateHash |-> "", err |-> FALSE, panic |-> TRUE,
             cluster |-> fromCluster, template |-> fromTemplate]
       ELSE IF y.err
       THEN [clusterHash |-> "", templateHash |-> "", err |-> TRUE, panic |-> FALSE,
             cluster |-> fromCluster, template |-> fromTemplate]
       ELSE IF fromCluster # NilPointer
       THEN [clusterHash |-> clusterHash, templateHash |-> templateHashStr,
             err |-> FALSE, panic |-> FALSE,
             cluster |-> fromCluster, template |-> fromTemplate]
       ELSE [clusterHash |-> "", templateHash |-> templateHashStr,
             err |-> FALSE, panic |-> FALSE,
             cluster |-> fromCluster, template |-> fromTemplate]

(***************************************************************************)
(* The documents change detection is run on.  The live document comes from *)
(* the API server, whose annotations are strings; it is absent, or has no  *)
(* metadata, no annotations, or annotations with or without a recorded     *)
(* fingerprint.  The template is any document of the merge, a document     *)
(* that carries a fingerprint itself, or one that cannot be serialized.    *)
(***************************************************************************)
Fingerprints == {"", "deadbeef1234", "0c1d2e3f4a5b6c"}

LiveAnnotations ==
    {Null, Map(EmptyMap), Map([k \in {"a"} |-> Str("1")])}
    \cup {Map([k \in {HashedData} |-> Str(h)]) : h \in Fingerprints}
    \cup {Map([k \in {HashedData, "a"} |-> IF k = "a" THEN Str("1") ELSE Str(h)]) :
             h \in Fingerprints}

WithSpec(doc) == Map(SetKey(doc[2], "spec", Map([k \in {"a"} |-> Str("1")])))

HashLives ==
    LET bare == {Map(EmptyMap),
                 Map([k \in {"metadata"} |-> Map(EmptyMap)]),
                 Map([k \in {"metadata"} |->
                         Map([j \in {"labels"} |->
                                 Map([i \in {HashedData} |-> Str("deadbeef1234")])])])}
                \cup {Map([k \in {"metadata"} |-> Map([j \in {"annotations"} |-> a])]) :
                         a \in LiveAnnotations}
    IN {NilPointer} \cup bare \cup {WithSpec(d) : d \in bare}

HashTemplates ==
    Docs
    \cup {Map([k \in {"spec"} |-> Map([j \in {"a"} |-> Failing])]),
          Map([k \in {"spec"} |-> List(<<Failing, Chan>>)]),
          Map([k \in {"spec"} |-> Map([j \in {"a"} |-> Float64(1)])]),
          Map([k \in {"metadata"} |->
                  Map([j \in {"annotations"} |->
                          Map([i \in {HashedData} |-> Str("0c1d2e3f4a5b6c")])])])}

HashInit ==
    /\ hCluster \in HashLives
    /\ hTemplate \in HashTemplates
    /\ hRet = NoHashes
    /\ hPrev = NoCall
    /\ WaitsIdle
    /\ MergeIdle
    /\ CRIdle
    /\ ElseIdle

\* clusterHash, templateHash, err := CalculateHashes(fromCluster, fromTemplate)
CallCalculateHashes ==
    /\ hRet = NoHashes
    /\ hRet' = CalculateHashes(hCluster, hTemplate)
    /\ UNCHANGED <<hCluster, hTemplate, hPrev, waitVars, mergeVars, crVars, elseVars>>

\* a later pass: the same template, rendered again, against the live
\* document of that time
CallCalculateHashesAgain ==
    /\ hRet # NoHashes
    /\ hPrev = NoCall
    /\ ~hRet.panic
    /\ \E c \in HashLives :
          /\ hCluster' = c
          /\ hRet' = CalculateHashes(c, hTemplate)
    /\ hPrev' = [cluster |-> hCluster, ret |-> hRet]
    /\ UNCHANGED <<hTemplate, waitVars, mergeVars, crVars, elseVars>>

HashNext == CallCalculateHashes \/ CallCalculateHashesAgain

HashSpec == HashInit /\ [][HashNext]_vars

(***************************************************************************)
(* A reconciliation pass on one resource: CalculateHashes on the live      *)
(* document and the template, MergeResources of the two, SetHashAnnotation *)
(* of the new fingerprint on the merged document, which is then the live   *)
(* document of the next pass.  A step that returns an error or panics ends *)
(* the pass.                                                               *)
(***************************************************************************)
PassLives == HashLives \ {NilPointer}
PassTemplates == HashTemplates

PassInit ==
    /\ pLive \in PassLives
    /\ pTemplate \in PassTemplates
    /\ pHash = NoHashes
    /\ pMerged = "-"
    /\ pRecorded = "-"
    /\ pRet = NoHashes
    /\ ppc = "start"
    /\ WaitsIdle /\ MergeIdle /\ CRIdle /\ HashIdle /\ RedisIdle /\ ImagesIdle

\* clusterHash, templateHash, err := CalculateHashes(live, template)
PassCalculateHashes ==
    /\ ppc = "start"
    /\ pHash' = CalculateHashes(pLive, pTemplate)
    /\ ppc' = IF pHash'.err \/ pHash'.panic THEN "failed" ELSE "hashed"
    /\ UNCHANGED <<pLive, pTemplate, pMerged, pRecorded, pRet>>
    /\ UNCHANGED <<waitVars, mergeVars, crVars, hashVars, redisVars, imageVars>>

\* merged, err := MergeResources(live, template)
PassMergeResources ==
    /\ ppc = "hashed"
    /\ LET r == MergeResources(pLive, pTemplate)
       IN /\ pMerged' = r.obj
          /\ ppc' = IF r.err \/ r.panic THEN "failed" ELSE "merged"
    /\ UNCHANGED <<pLive, pTemplate, pHash, pRecorded, pRet>>
    /\ UNCHANGED <<waitVars, mergeVars, crVars, hashVars, redisVars, imageVars>>

\* SetHashAnnotation(merged, templateHash)
PassSetHashAnnotation ==
    /\ ppc = "merged"
    /\ pRecorded' = SetHashAnnotation(pMerged, pHash.templateHash)
    /\ ppc' = "recorded"
    /\ UNCHANGED <<pLive, pTemplate, pHash, pMerged, pRet>>
    /\ UNCHANGED <<waitVars, mergeVars, crVars, hashVars, redisVars, imageVars>>

\* the next pass: CalculateHashes(recorded, template)
PassCalculateHashesAgain ==
    /\ ppc = "recorded"
    /\ pRet' = CalculateHashes(pRecorded, pTemplate)
    /\ ppc' = "checked"
    /\ UNCHANGED <<pLive, pTemplate, pHash, pMerged, pRecorded>>
    /\ UNCHANGED <<waitVars, mergeVars, crVars, hashVars, redisVars, imageVars>>

PassNext ==
    \/ PassCalculateHashes
    \/ PassMergeResources
    \/ PassSetHashAnnotation
    \/ PassCalculateHashesAgain

PassSpec == PassInit /\ [][PassNext]_vars

(***************************************************************************)
(* SetHashAnnotation called on any document with any fingerprint: the      *)
(* documents of the merge and of the change detection, and one whose       *)
(* annotations hold a value that is not a string.                          *)
(***************************************************************************)
AnnotatedDocs ==
    {d \in Docs : Serializable(d)}
    \cup PassLives
    \cup {Map([k \in {"metadata"} |->
                  Map([j \in {"annotations"} |->
                          Map([i \in {"a", "b"} |->
                                  IF i = "a" THEN Str("1") ELSE Float64(1)])])])}

AnnotateInit ==
    /\ pMerged \in AnnotatedDocs
    /\ pHash \in {[NoHashes EXCEPT !.templateHash = h] : h \in Fingerprints}
    /\ pLive = "-"
    /\ pTemplate = "-"
    /\ pRecorded = "-"
    /\ pRet = NoHashes
    /\ ppc = "merged"
    /\ WaitsIdle /\ MergeIdle /\ CRIdle /\ HashIdle /\ RedisIdle /\ ImagesIdle

AnnotateNext == PassSetHashAnnotation

AnnotateSpec == AnnotateInit /\ [][AnnotateNext]_vars

(***************************************************************************)
(* GetRedisInfo (utils.go:620-636) and the part of net/url it runs.  A URL *)
(* is a string; url.Parse is modelled on what it does with the text: the   *)
(* fragment cut, the scheme scan, the query cut, the authority split, the  *)
(* host and port validation, and the escape checks of path and fragment.   *)
(***************************************************************************)
Char(s, i) == SubSeq(s, i, i)

\* strings.Index and strings.LastIndex for a one-byte separator, counted
\* from 1; 0 when the byte does not occur (Go: -1)
Index(s, c) ==
    LET hits == {i \in 1..Len(s) : Char(s, i) = c}
    IN  IF hits = {} THEN 0 ELSE CHOOSE i \in hits : \A j \in hits : i <= j

LastIndex(s, c) ==
    LET hits == {i \in 1..Len(s) : Char(s, i) = c}
    IN  IF hits = {} THEN 0 ELSE CHOOSE i \in hits : \A j \in hits : i >= j

HasSuffix(s, p) == Len(s) >= Len(p) /\ SubSeq(s, Len(s) - Len(p) + 1, Len(s)) = p

\* strings.Cut: the text before and after the first separator
CutBefore(s, c) == IF Index(s, c) = 0 THEN s ELSE SubSeq(s, 1, Index(s, c) - 1)

CutAfter(s, c) == IF Index(s, c) = 0 THEN "" ELSE SubSeq(s, Index(s, c) + 1, Len(s))

LowerLetters ==
    {"a", "b", "c", "d", "e", "f", "g", "h", "i", "j", "k", "l", "m",
     "n", "o", "p", "q", "r", "s", "t", "u", "v", "w", "x", "y", "z"}

UpperLetters ==
    {"A", "B", "C", "D", "E", "F", "G", "H", "I", "J", "K", "L", "M",
     "N", "O", "P", "Q", "R", "S", "T", "U", "V", "W", "X", "Y", "Z"}

Letters == LowerLetters \cup UpperLetters

Digits == {"0", "1", "2", "3", "4", "5", "6", "7", "8", "9"}

HexChars == Digits \cup {"a", "b", "c", "d", "e", "f", "A", "B", "C", "D", "E", "F"}

\* the ASCII control bytes of the model's alphabet
CTLBytes == {"\t", "\n"}

stringContainsCTLByte(s) == \E i \in 1..Len(s) : Char(s, i) \in CTLBytes

\* getScheme: the scan stops at the first byte that is not a letter and
\* not a digit, "+", "-" or "." after the first position; a colon there
\* ends the scheme (an error when nothing precedes it), any other byte
\* means the text has no scheme
getScheme(rawURL) ==
    LET stops == {i \in 1..Len(rawURL) :
                    /\ Char(rawURL, i) \notin Letters
                    /\ ~(Char(rawURL, i) \in Digits \cup {"+", "-", "."} /\ i > 1)}
        i == CHOOSE k \in stops : \A j \in stops : k <= j
    IN  IF stops = {} \/ Char(rawURL, i) # ":"
        THEN [err |-> FALSE, scheme |-> "", rest |-> rawURL]
        ELSE IF i = 1
        THEN [err |-> TRUE, scheme |-> "", rest |-> ""]
        ELSE [err |-> FALSE, scheme |-> SubSeq(rawURL, 1, i - 1),
              rest |-> SubSeq(rawURL, i + 1, Len(rawURL))]

\* validOptionalPort: empty, or a colon followed by digits only
validOptionalPort(port) ==
    \/ port = ""
    \/ /\ Char(port, 1) = ":"
       /\ \A i \in 2..Len(port) : Char(port, i) \in Digits

\* the bytes a host may hold unescaped (shouldEscape, mode encodeHost)
HostBytes ==
    Letters \cup Digits \cup
    {"-", "_", ".", "~", "!", "$", "&", "'", "(", ")", "*", "+", ",", ";",
     "=", ":", "[", "]", "<", ">", "\""}

\* the bytes validUserinfo accepts
UserinfoBytes ==
    Letters \cup Digits \cup
    {"-", ".", "_", ":", "~", "!", "$", "&", "'", "(", ")", "*", "+", ",",
     ";", "=", "%", "@"}

\* unescape fails on a "%" that is not followed by two hex digits
BadEscape(s) ==
    \E i \in 1..Len(s) :
        /\ Char(s, i) = "%"
        /\ \/ i + 2 > Len(s)
           \/ Char(s, i + 1) \notin HexChars
           \/ Char(s, i + 2) \notin HexChars

\* unescape in mode encodeHost: of the ASCII escapes only "%25" may stand
\* in a host, and every other byte has to be one of HostBytes
BadHost(host) ==
    \/ BadEscape(host)
    \/ \E i \in 1..Len(host) :
          \/ /\ Char(host, i) = "%"
             /\ Char(host, i + 1) \in {"0", "1", "2", "3", "4", "5", "6", "7"}
             /\ SubSeq(host, i, i + 2) # "%25"
          \/ Char(host, i) \notin HostBytes \cup {"%"}

\* the text of a host after unescape: "%25" becomes "%"
RECURSIVE UnescapeHost(_)
UnescapeHost(host) ==
    IF host = "" THEN ""
    ELSE IF HasPrefix(host, "%25")
    THEN "%" \o UnescapeHost(SubSeq(host, 4, Len(host)))
    ELSE Char(host, 1) \o UnescapeHost(SubSeq(host, 2, Len(host)))

\* parseHost: a bracketed literal must close and may be followed only by an
\* optional port; otherwise what follows the last colon must be a port
parseHost(host) ==
    LET close == LastIndex(host, "]")
        colon == LastIndex(host, ":")
        bad ==
            IF HasPrefix(host, "[")
            THEN \/ close = 0
                 \/ ~validOptionalPort(SubSeq(host, close + 1, Len(host)))
            ELSE /\ colon # 0
                 /\ ~validOptionalPort(SubSeq(host, colon, Len(host)))
    IN  IF bad \/ BadHost(host)
        THEN [err |-> TRUE, Host |-> ""]
        ELSE [err |-> FALSE, Host |-> UnescapeHost(host)]

\* parseAuthority: the host is what follows the last "@"; the user
\* information before it has to be valid
parseAuthority(authority) ==
    LET at == LastIndex(authority, "@")
        h  == parseHost(SubSeq(authority, at + 1, Len(authority)))
        userinfo == SubSeq(authority, 1, at - 1)
    IN  IF h.err THEN h
        ELSE IF at = 0 THEN h
        ELSE IF \/ \E i \in 1..Len(userinfo) : Char(userinfo, i) \notin UserinfoBytes
                \/ BadEscape(userinfo)
        THEN [err |-> TRUE, Host |-> ""]
        ELSE h

\* url.parse with viaRequest = false, for the URL without its fragment
parse(rawURL) ==
    LET gs    == getScheme(rawURL)
        marks == {i \in 1..Len(gs.rest) : Char(gs.rest, i) = "?"}
        rest  == IF HasSuffix(gs.rest, "?") /\ Cardinality(marks) = 1
                 THEN SubSeq(gs.rest, 1, Len(gs.rest) - 1)
                 ELSE CutBefore(gs.rest, "?")
        after == SubSeq(rest, 3, Len(rest))
        slash == Index(after, "/")
        authority == IF slash = 0 THEN after ELSE SubSeq(after, 1, slash - 1)
        path  == IF slash = 0 THEN "" ELSE SubSeq(after, slash, Len(after))
        a     == parseAuthority(authority)
    IN  IF stringContainsCTLByte(rawURL) THEN [err |-> TRUE, Host |-> ""]
        ELSE IF rawURL = "" \/ rawURL = "*" THEN [err |-> FALSE, Host |-> ""]
        ELSE IF gs.err THEN [err |-> TRUE, Host |-> ""]
        ELSE IF ~HasPrefix(rest, "/") /\ gs.scheme # ""
        THEN [err |-> FALSE, Host |-> ""]
        ELSE IF ~HasPrefix(rest, "/") /\ Index(CutBefore(rest, "/"), ":") # 0
        THEN [err |-> TRUE, Host |-> ""]
        ELSE IF (gs.scheme # "" \/ ~HasPrefix(rest, "///")) /\ HasPrefix(rest, "//")
        THEN IF a.err \/ BadEscape(path) THEN [err |-> TRUE, Host |-> ""] ELSE a
        ELSE IF BadEscape(rest) THEN [err |-> TRUE, Host |-> ""]
        ELSE [err |-> FALSE, Host |-> ""]

\* url.Parse: the fragment is cut off first and is checked last
Parse(rawURL) ==
    LET u == parse(CutBefore(rawURL, "#"))
    IN  IF u.err \/ BadEscape(CutAfter(rawURL, "#"))
        THEN [err |-> TRUE, Host |-> ""]
        ELSE u

\* splitHostPort: host and port are separated at the last colon when what
\* follows it is a valid port; the brackets of a literal are removed
splitHostPort(hostPort) ==
    LET colon == LastIndex(hostPort, ":")
        cut   == colon # 0 /\ validOptionalPort(SubSeq(hostPort, colon, Len(hostPort)))
        host  == IF cut THEN SubSeq(hostPort, 1, colon - 1) ELSE hostPort
        port  == IF cut THEN SubSeq(hostPort, colon + 1, Len(hostPort)) ELSE ""
    IN  [host |-> IF HasPrefix(host, "[") /\ HasSuffix(host, "]")
                  THEN SubSeq(host, 2, Len(host) - 1) ELSE host,
         port |-> port]

\* a mutant of GetRedisInfo: it never falls back to the default port
GetRedisInfo_NoDefault(url) ==
    LET u == Parse(url)
    IN  IF u.err
        THEN [hostname |-> "", port |-> "", err |-> TRUE]
        ELSE [hostname |-> splitHostPort(u.Host).host,
              port |-> splitHostPort(u.Host).port, err |-> FALSE]

GetRedisInfo(url) ==
    LET u    == Parse(url)
        port == splitHostPort(u.Host).port
    IN  IF u.err
        THEN [hostname |-> "", port |-> "", err |-> TRUE]
        ELSE [hostname |-> splitHostPort(u.Host).host,
              port |-> IF port = "" THEN "6379" ELSE port,
              err |-> FALSE]

\* The URLs of the model: every text assembled from a scheme, optional user
\* information, a host, an optional port and a tail, and texts that are
\* not of that form.
Schemes == {"redis", "rediss"}

Userinfos == {"", "user:pw@"}

\* a host as written and the host name it stands for
Hosts ==
    {[text |-> "localhost", name |-> "localhost"],
     [text |-> "10.0.0.1", name |-> "10.0.0.1"],
     [text |-> "redis-0.svc", name |-> "redis-0.svc"],
     [text |-> "[::1]", name |-> "::1"]}

Ports == {"", "6379", "6380"}

Tails == {"", "/0", "/0?ssl=true", "?db=1#top"}

Assemble(scheme, userinfo, host, port, tail) ==
    scheme \o "://" \o userinfo \o host.text \o
    (IF port = "" THEN "" ELSE ":" \o port) \o tail

WellFormedURLs ==
    {Assemble(c, u, h, p, t) : c \in Schemes, u \in Userinfos, h \in Hosts,
                               p \in Ports, t \in Tails}

OtherURLs ==
    {"", "*", "://invalid", "localhost:6380", "10.0.0.1:6379", "localhost",
     "//localhost:6380", "/var/run/redis.sock", "redis://localhost:/0",
     "redis://localhost:port", "redis://local host:6379", "redis://[::1",
     "redis://[::1]x", "redis://::1:6379", "redis://:6380", "redis://",
     "redis://%zz:6379", "redis://a%25b:6380", "redis://a%41b",
     "redis://localhost/%", "redis://localhost/0#%g", "redis://u^@localhost",
     "redis://localhost:6380\n", "redis:localhost:6380", "redis:///0",
     "///localhost:6380", "redis://localhost:6380?", "r3dis+x://h:1",
     "3redis://h:1"}

RedisURLs == WellFormedURLs \cup OtherURLs

RedisInit ==
    /\ redisURL \in RedisURLs
    /\ redisRet = NoInfo
    /\ WaitsIdle /\ MergeIdle /\ CRIdle /\ HashIdle /\ PassIdle /\ ImagesIdle

CallGetRedisInfo ==
    /\ redisRet = NoInfo
    /\ redisRet' = GetRedisInfo(redisURL)
    /\ UNCHANGED redisURL
    /\ UNCHANGED <<waitVars, mergeVars, crVars, hashVars, passVars, imageVars>>

RedisNext == CallGetRedisInfo

RedisSpec == RedisInit /\ [][RedisNext]_vars

(***************************************************************************)
(* Package images (images.go:1-56): the image cache, filled from the       *)
(* environment under a sync.Once.  Goroutines call Initialize, Get and     *)
(* ReplaceInYAML in any order and at any time, and the environment may be  *)
(* changed at any time.  The model keeps the first two of the five names   *)
(* of imageEnvVars.                                                        *)
(***************************************************************************)
imageEnvVars == <<"RELATED_IMAGE_MCSP_UTILS", "RELATED_IMAGE_ACCOUNT_IAM">>

ImageNames == {imageEnvVars[i] : i \in 1..Len(imageEnvVars)}

\* a variable the environment does not hold / a key the cache does not hold
Unset == "<unset>"

ImageValues == {"", "icr.io/a:1", "icr.io/b:2"}

Environments == [ImageNames -> ImageValues \cup {Unset}]

\* the goroutines that use the package
Callers == {1, 2}

\* most calls of Initialize in one run of the model
MaxInitCalls == 3

\* os.LookupEnv(envName): the value and whether the variable exists
LookupEnv(env, envName) ==
    [image |-> IF env[envName] = Unset THEN "" ELSE env[envName],
     exists |-> env[envName] # Unset]

\* YAML texts, as the pieces strings.ReplaceAll works on: a piece is the
\* name of an image variable or other text
YAMLTexts ==
    {<<"image: ", imageEnvVars[1]>>,
     <<"a: ", imageEnvVars[1], " b: ", imageEnvVars[2], " c: ", imageEnvVars[1]>>}

NoReturn == <<"-">>

AtRest == <<"idle">>
Fatal == <<"fatal">>

\* some goroutine is inside the loop that writes the cache
Writing == \E c \in Callers : ipc[c][1] = "loop"

\* Initialize without the Once: every call runs the loop
Initialize_NoOnce(c) ==
    /\ ipc[c] = AtRest
    /\ inits < MaxInitCalls
    /\ ~Writing
    /\ inits' = inits + 1
    /\ fills' = fills + 1
    /\ ipc' = [ipc EXCEPT ![c] = <<"loop", 1>>]
    /\ UNCHANGED <<imageMap, environ, initOnce, iret>>
    /\ UNCHANGED <<waitVars, mergeVars, crVars, hashVars, passVars, redisVars>>

\* Initialize, the fast path of initOnce.Do: a call that finds the Once
\* done returns, any other goes on to take the lock
Initialize(c) ==
    /\ ipc[c] = AtRest
    /\ inits < MaxInitCalls
    /\ inits' = inits + 1
    /\ ipc' = [ipc EXCEPT ![c] = IF initOnce.done THEN AtRest ELSE <<"doSlow">>]
    /\ UNCHANGED <<imageMap, environ, initOnce, iret, fills>>
    /\ UNCHANGED <<waitVars, mergeVars, crVars, hashVars, passVars, redisVars>>

\* the slow path of initOnce.Do: with the lock held the Once is looked at
\* again; the first caller to get here runs the function, every other one
\* finds the Once done and returns
doSlow(c) ==
    /\ ipc[c] = <<"doSlow">>
    /\ initOnce.m = 0
    /\ IF initOnce.done
       THEN /\ ipc' = [ipc EXCEPT ![c] = AtRest]
            /\ UNCHANGED <<initOnce, fills>>
       ELSE /\ ipc' = [ipc EXCEPT ![c] = <<"loop", 1>>]
            /\ initOnce' = [initOnce EXCEPT !.m = c]
            /\ fills' = fills + 1
    /\ UNCHANGED <<imageMap, environ, iret, inits>>
    /\ UNCHANGED <<waitVars, mergeVars, crVars, hashVars, passVars, redisVars>>

\* one turn of the loop over imageEnvVars: a variable that exists is put
\* in the cache
LoadImage(c) ==
    /\ ipc[c][1] = "loop"
    /\ ipc[c][2] <= Len(imageEnvVars)
    /\ LET envName == imageEnvVars[ipc[c][2]]
           found   == LookupEnv(environ, envName)
       IN imageMap' = IF found.exists
                      THEN [imageMap EXCEPT ![envName] = found.image]
                      ELSE imageMap
    /\ ipc' = [ipc EXCEPT ![c] = <<"loop", ipc[c][2] + 1>>]
    /\ UNCHANGED <<environ, initOnce, iret, inits, fills>>
    /\ UNCHANGED <<waitVars, mergeVars, crVars, hashVars, passVars, redisVars>>

\* the function given to initOnce.Do returns: the Once is done and the
\* lock is released
InitializeReturn(c) ==
    /\ ipc[c] = <<"loop", Len(imageEnvVars) + 1>>
    /\ initOnce' = [done |-> TRUE, m |-> IF initOnce.m = c THEN 0 ELSE initOnce.m]
    /\ ipc' = [ipc EXCEPT ![c] = AtRest]
    /\ UNCHANGED <<imageMap, environ, iret, inits, fills>>
    /\ UNCHANGED <<waitVars, mergeVars, crVars, hashVars, passVars, redisVars>>

\* Get(envName): the cached value, or the environment's when the cache
\* holds none
Get(c, envName) ==
    /\ ipc[c] = AtRest
    /\ iret' = <<"Get", envName,
                 IF imageMap[envName] # Unset
                 THEN imageMap[envName]
                 ELSE LookupEnv(environ, envName).image>>
    /\ UNCHANGED <<imageMap, environ, initOnce, ipc, inits, fills>>
    /\ UNCHANGED <<waitVars, mergeVars, crVars, hashVars, passVars, redisVars>>

\* ReplaceInYAML(yaml): every name the cache holds with a value that is not
\* empty is replaced by that value
ReplaceInYAML(c, yaml) ==
    /\ ipc[c] = AtRest
    /\ iret' = <<"ReplaceInYAML", yaml,
                 [i \in 1..Len(yaml) |->
                     IF yaml[i] \in ImageNames /\ imageMap[yaml[i]] \notin {Unset, ""}
                     THEN imageMap[yaml[i]]
                     ELSE yaml[i]]>>
    /\ UNCHANGED <<imageMap, environ, initOnce, ipc, inits, fills>>
    /\ UNCHANGED <<waitVars, mergeVars, crVars, hashVars, passVars, redisVars>>

\* Get and ReplaceInYAML read the cache without a lock: a read while the
\* loop writes the map is a data race.  The read returns as above (the
\* actions Get and ReplaceInYAML), or the runtime detects the race on the
\* map and ends the process.
RacingRead(c) ==
    /\ ipc[c] = AtRest
    /\ Writing
    /\ ipc' = [d \in Callers |-> Fatal]
    /\ UNCHANGED <<imageMap, environ, initOnce, iret, inits, fills>>
    /\ UNCHANGED <<waitVars, mergeVars, crVars, hashVars, passVars, redisVars>>

\* os.Setenv / os.Unsetenv, by anything in the process
Setenv(envName, value) ==
    /\ \A c \in Callers : ipc[c] # Fatal
    /\ environ[envName] # value
    /\ environ' = [environ EXCEPT ![envName] = value]
    /\ UNCHANGED <<imageMap, initOnce, ipc, iret, inits, fills>>
    /\ UNCHANGED <<waitVars, mergeVars, crVars, hashVars, passVars, redisVars>>

\* package initialisation: an empty map and a fresh Once
ImagesInit ==
    /\ imageMap = [n \in ImageNames |-> Unset]
    /\ environ \in Environments
    /\ initOnce = [done |-> FALSE, m |-> 0]
    /\ ipc = [c \in Callers |-> AtRest]
    /\ iret = NoReturn
    /\ inits = 0
    /\ fills = 0
    /\ WaitsIdle /\ MergeIdle /\ CRIdle /\ HashIdle /\ PassIdle /\ RedisIdle

ImagesNext ==
    \/ \E c \in Callers : Initialize(c)
    \/ \E c \in Callers : doSlow(c)
    \/ \E c \in Callers : LoadImage(c)
    \/ \E c \in Callers : InitializeReturn(c)
    \/ \E c \in Callers : \E n \in ImageNames : Get(c, n)
    \/ \E c \in Callers : \E y \in YAMLTexts : ReplaceInYAML(c, y)
    \/ \E c \in Callers : RacingRead(c)
    \/ \E n \in ImageNames : \E v \in ImageValues \cup {Unset} : Setenv(n, v)

ImagesSpec == ImagesInit /\ [][ImagesNext]_vars

(***************************************************************************)
(* Properties of the readiness waits.                                      *)
(***************************************************************************)

\* C1: for every readiness wait, while every fetch of the target returns
\* not-found the wait keeps polling, and it ends only with the timed-out
\* error, once the whole timeout has elapsed; it never returns a retrieval
\* error.
C1_NotFoundEndsTimedOut ==
    \A w \in WaitIds :
        (polls[w] > 0 /\ seen[w] = {"NotFound"}) =>
            /\ ret[w] \in {Pending, ErrWaitTimeout}
            /\ ret[w] = ErrWaitTimeout => ticks[w] = MaxTicks(kind[w])

\* C2: for every readiness wait, a fetch that fails with a store error other
\* than not-found ends the wait at that poll with that error: once such a
\* fetch has happened the wait has returned the store's error.
C2_StoreErrorEndsWait ==
    \A w \in WaitIds :
        "Error" \in seen[w] => ret[w] = ErrOther


\* C3: when the fetches of a wait return the target not ready k times and
\* then ready, the wait returns success at the first ready fetch, after at
\* least k and fewer than k + 2 polls; a wait that has only seen the target
\* not ready ends with the timed-out error and no other, when the timeout
\* has elapsed, and then k * interval >= timeout (so k * interval < timeout
\* always leads to the ready fetch).
C3_SuccessAfterKPolls ==
    \A w \in WaitIds :
        (polls[w] > 0 /\ seen[w] \subseteq {"NotReady", "Ready"}) =>
            LET k == notReady[w]
            IN /\ "Ready" \in seen[w] =>
                    /\ ret[w] = ErrNil
                    /\ polls[w] >= k
                    /\ polls[w] < k + 2
               /\ "Ready" \notin seen[w] =>
                    /\ ret[w] \in {Pending, ErrWaitTimeout}
                    /\ ret[w] = ErrWaitTimeout =>
                          /\ ticks[w] = MaxTicks(kind[w])
                          /\ k * PollInterval(kind[w]) >= PollTimeout(kind[w])

\* a wait returned success at its fourth poll, after three not-ready fetches
C3_Witness ==
    \E w \in WaitIds :
        /\ ret[w] = ErrNil
        /\ seen[w] = {"NotReady", "Ready"}
        /\ notReady[w] = 3
        /\ polls[w] = 4

\* a wait timed out having only ever fetched a target that was not ready
C3_WitnessTimedOut ==
    \E w \in WaitIds :
        /\ ret[w] = ErrWaitTimeout
        /\ seen[w] = {"NotReady"}

\* C4: a wait whose context was cancelled while it was polling ends with the
\* canceled condition, never with the timed-out error.
C4_CancelledEndsCanceled ==
    \A w \in WaitIds :
        (cancelled[w] /\ Terminal(w)) => ret[w] = ErrCanceled

\* C5 (second clause): a wait that ended without having fetched a ready
\* target and without a retrieval error (a store error other than not-found,
\* or the cancelled context's error) ended in TimedOut.
C5_EndsTimedOut ==
    \A w \in WaitIds :
        (Terminal(w) /\ seen[w] \cap {"Ready", "Error", "Canceled"} = {}) =>
            TimedOut(w)

\* C5 (first and third clause): every wait that was called returns, and a
\* wait that has returned issues no further fetch.
C5_Terminates ==
    /\ \A w \in WaitIds : (ret[w] = Pending) ~> Terminal(w)
    /\ [][\A w \in WaitIds : Terminal(w) => (polls'[w] = polls[w] /\ ret'[w] = ret[w])]_vars


\* what wait w alone makes of its own latest fetch
OwnOutcome(w) ==
    LET c == Cond(kind[w], param[w], lastFetch[w])
    IN IF polls[w] = 0
       THEN ret[w] = Pending /\ ticks[w] = 0
       ELSE /\ c.err # ErrNil => ret[w] = c.err
            /\ (c.err = ErrNil /\ c.done) => ret[w] = ErrNil
            /\ (c.err = ErrNil /\ ~c.done) => ret[w] \in {Pending, ErrWaitTimeout}
            /\ ret[w] = Pending => polls[w] = ticks[w] + 1
            /\ ret[w] = ErrWaitTimeout =>
                  /\ ticks[w] = MaxTicks(kind[w])
                  /\ polls[w] \in {MaxTicks(kind[w]) + 1, MaxTicks(kind[w]) + 2}
            /\ polls[w] <= ticks[w] + 2

\* C6: two waits running concurrently on different locators do not affect
\* each other: under every interleaving the outcome and the number of polls
\* of each wait are those its own fetch results give, and a step in which a
\* wait issues no fetch changes nothing of that wait.
C6_WaitsIndependent ==
    /\ [](\A w \in WaitIds : OwnOutcome(w))
    /\ [][\A w \in WaitIds :
            polls'[w] = polls[w] =>
                /\ ret'[w] = ret[w]
                /\ ticks'[w] = ticks[w]
                /\ lastFetch'[w] = lastFetch[w]
                /\ seen'[w] = seen[w]]_vars

\* the two waits ran interleaved and ended differently
C6_Witness ==
    /\ ret[1] = ErrWaitTimeout
    /\ ret[2] = ErrNil
    /\ polls[2] = 3
    /\ ticks[2] < ticks[1]


(***************************************************************************)
(* Properties of the document merge.  The documents are compared as the    *)
(* JSON values MergeResources decodes.                                     *)
(***************************************************************************)
Merged == mpc # "start" /\ ~merged.err /\ ~merged.panic
LiveMap == JSONValue(live)[2]
TemplateMap == JSONValue(template)[2]
MergedMap == merged.obj[2]

RECURSIVE TemplateWins(_, _, _)
\* in the maps l (live), t (template) and r (result): every key of both l
\* and t with different values holds in r the value of t, or, when both
\* values are mappings, a mapping for which the same is true
TemplateWins(l, t, r) ==
    \A k \in DOMAIN l \cap DOMAIN t :
        l[k] # t[k] =>
            /\ k \in DOMAIN r
            /\ IF IsMap(l[k]) /\ IsMap(t[k])
               THEN IsMap(r[k]) /\ TemplateWins(l[k][2], t[k][2], r[k][2])
               ELSE r[k] = t[k]

\* C7: for every key, at any mapping depth, present in both documents with
\* different values, the merge result holds the template's value, or, when
\* both values are mappings, the recursive merge of the two.
C7_TemplatePrecedence == Merged => TemplateWins(LiveMap, TemplateMap, MergedMap)

RECURSIVE LiveOnlyKept(_, _, _)
\* every key of l that t does not mention is in r with the value of l, at
\* this level and inside every mapping both l and t hold
LiveOnlyKept(l, t, r) ==
    /\ \A k \in DOMAIN l \ DOMAIN t : k \in DOMAIN r /\ r[k] = l[k]
    /\ \A k \in DOMAIN l \cap DOMAIN t :
          (IsMap(l[k]) /\ IsMap(t[k])) =>
              /\ k \in DOMAIN r
              /\ IsMap(r[k])
              /\ LiveOnlyKept(l[k][2], t[k][2], r[k][2])

\* C8: every key, at any mapping depth, present in the live document and
\* not mentioned by the template is in the merge result with its live value,
\* whatever that value is.
C8_LiveOnlyPreserved == Merged => LiveOnlyKept(LiveMap, TemplateMap, MergedMap)

\* the labels or annotations map of a document, empty when it has none
MetaField(doc, field) ==
    LET meta == Lookup(doc, "metadata")
    IN IF IsMap(meta) /\ IsMap(Lookup(meta[2], field))
       THEN Lookup(meta[2], field)[2]
       ELSE EmptyMap

\* C9: the labels and the annotations of the merge result are each the
\* key-union of the live and the template maps, with the template's value
\* for every key both hold with different values.
C9_MetadataUnionTemplateWins ==
    Merged =>
        \A field \in {"labels", "annotations"} :
            LET l == MetaField(LiveMap, field)
                t == MetaField(TemplateMap, field)
                r == MetaField(MergedMap, field)
            IN /\ DOMAIN r = DOMAIN l \cup DOMAIN t
               /\ \A k \in DOMAIN l \cap DOMAIN t : l[k] # t[k] => r[k] = t[k]

\* C10: merging the result of a merge with the same template again returns
\* the same document: Merge(Merge(live, template), template) equals
\* Merge(live, template), labels, annotations and sequences included.
C10_MergeIdempotent ==
    mpc = "remerged" =>
        /\ ~merged2.err
        /\ ~merged2.panic
        /\ merged2.obj = merged.obj

\* the second merge ran on a result that is neither input: both documents
\* hold different sequences in spec and the result took keys of each
C10_Witness ==
    /\ mpc = "remerged"
    /\ IsSeq(Lookup(LiveMap, "spec"))
    /\ IsSeq(Lookup(TemplateMap, "spec"))
    /\ merged.obj # JSONValue(live)
    /\ merged.obj # JSONValue(template)

\* as C10_Witness, for labels: the result holds labels of both documents
C10_WitnessLabels ==
    /\ mpc = "remerged"
    /\ MetaField(MergedMap, "labels") # MetaField(LiveMap, "labels")
    /\ MetaField(MergedMap, "labels") # MetaField(TemplateMap, "labels")

IsScalar(v) == v[1] \in {"s", "f"}

RECURSIVE ScalarClash(_, _)
\* the maps l and t hold different scalars (a string or a number each) at
\* the same key, at any mapping depth
ScalarClash(l, t) ==
    \E k \in DOMAIN l \cap DOMAIN t :
        \/ IsScalar(l[k]) /\ IsScalar(t[k]) /\ l[k] # t[k]
        \/ IsMap(l[k]) /\ IsMap(t[k]) /\ ScalarClash(l[k][2], t[k][2])

\* C14: the merge is not commutative: for two documents that hold different
\* scalar values at the same key, MergeResources(a, b) and
\* MergeResources(b, a) both return a document and the two differ.
C14_NotCommutative ==
    (mpc = "swapped" /\ ScalarClash(LiveMap, TemplateMap)) =>
        /\ ~merged.err /\ ~merged.panic
        /\ ~merged2.err /\ ~merged2.panic
        /\ merged2.obj # merged.obj

\* two documents with different strings at spec.a were merged both ways
C14_Witness ==
    /\ mpc = "swapped"
    /\ IsMap(Lookup(LiveMap, "spec"))
    /\ IsMap(Lookup(TemplateMap, "spec"))
    /\ Lookup(Lookup(LiveMap, "spec")[2], "a") = Str("1")
    /\ Lookup(Lookup(TemplateMap, "spec")[2], "a") = Str("2")
    /\ merged.obj = JSONValue(template)
    /\ merged2.obj = JSONValue(live)

\* r is the per-key merge of the mappings l (live) and t (template): the
\* keys of both, the template's value where both hold the key, live-only
\* keys with their live value
PerKeyMerge(l, t, r) ==
    /\ DOMAIN r = DOMAIN l \cup DOMAIN t
    /\ \A k \in DOMAIN t \ DOMAIN l : r[k] = t[k]
    /\ TemplateWins(l, t, r)
    /\ LiveOnlyKept(l, t, r)

\* C15: when both documents hold a sequence at the same key, for every
\* index at which both sequences hold a mapping the element of the result
\* at that index is the per-key merge of the live and the template element
\* at that index.
C15_SequencesPositional ==
    LET l == Lookup(LiveMap, "spec")
        t == Lookup(TemplateMap, "spec")
        r == Lookup(MergedMap, "spec")
    IN (Merged /\ IsSeq(l) /\ IsSeq(t)) =>
          /\ IsSeq(r)
          /\ \A i \in 1..Len(l[2]) :
                (i <= Len(t[2]) /\ IsMap(l[2][i]) /\ IsMap(t[2][i])) =>
                    /\ i <= Len(r[2])
                    /\ IsMap(r[2][i])
                    /\ PerKeyMerge(l[2][i][2], t[2][i][2], r[2][i][2])

\* C16: MergeResources leaves both arguments as they were: after the call,
\* whether it returned a document, returned an error or panicked, the
\* Object of the live and of the template resource are deeply equal to
\* what they were before the call.
C16_InputsUnchanged ==
    mpc # "start" =>
        /\ DeepEqual(merged.cluster, live)
        /\ DeepEqual(merged.template, template)

\* a merge returned a document that differs from both arguments, having
\* taken label keys of each
C16_Witness ==
    /\ mpc = "merged"
    /\ Merged
    /\ DOMAIN MetaField(MergedMap, "labels") # DOMAIN MetaField(LiveMap, "labels")
    /\ DOMAIN MetaField(MergedMap, "labels") # DOMAIN MetaField(TemplateMap, "labels")
    /\ merged.template = template

\* a merge returned an error, on a document that cannot be serialized
C16_WitnessError == mpc = "merged" /\ merged.err /\ merged.cluster = live

(***************************************************************************)
(* Properties of MergeCR on byte slices.                                   *)
(***************************************************************************)
Called == crResult # "-"
\* the slice is the JSON text of a document (an object)
IsDocText(bytes) == bytes[1] = "json" /\ IsMap(bytes[2])
\* the slice is supplied and json.Unmarshal into a map fails on it
Undecodable(bytes) == bytes # EmptyBytes /\ Unmarshal(bytes).err
\* the call returned the non-nil map f
Returned(f) == crResult = <<"ok", f, FALSE>>

\* C11: MergeCR never panics: whatever the two byte slices are, two
\* decodable documents with values of different kinds at the same key or
\* sequence index included, the call returns a document.
C11_MergeNeverPanics == Called => crResult # Panic

\* C11, without the nil map: MergeCR does not panic on the texts of two
\* documents
C11_NoPanicOnDocuments ==
    (Called /\ IsDocText(crDefault) /\ IsDocText(crChanged)) => crResult # Panic

\* C12: when only one of the two documents is supplied and the other slice
\* is empty, MergeCR returns that document as decoded; when both slices are
\* empty it returns an empty map that is not nil.
C12_OneSideMissing ==
    Called =>
        /\ (crDefault = EmptyBytes /\ crChanged = EmptyBytes) => Returned(EmptyMap)
        /\ (IsDocText(crDefault) /\ crChanged = EmptyBytes) => Returned(crDefault[2][2])
        /\ (crDefault = EmptyBytes /\ IsDocText(crChanged)) => Returned(crChanged[2][2])

\* MergeCR returned a document with a null and a nested mapping that was
\* supplied alone, as defaultCR
C12_Witness ==
    /\ Called
    /\ crChanged = EmptyBytes
    /\ IsDocText(crDefault)
    /\ \E k \in DOMAIN crDefault[2][2] :
          /\ IsMap(crDefault[2][2][k])
          /\ \E j \in DOMAIN crDefault[2][2][k][2] : IsNil(crDefault[2][2][k][2][j])
    /\ Returned(crDefault[2][2])

\* both slices were empty
C12_WitnessNeither == Called /\ crDefault = EmptyBytes /\ crChanged = EmptyBytes

\* C13: when exactly one of the two supplied slices cannot be decoded,
\* MergeCR returns the other, decoded; when neither can be decoded it
\* returns an empty document; it does not panic in either case.
C13_MalformedFallsBack ==
    Called =>
        /\ (Undecodable(crDefault) /\ IsDocText(crChanged)) => Returned(crChanged[2][2])
        /\ (IsDocText(crDefault) /\ Undecodable(crChanged)) => Returned(crDefault[2][2])
        /\ (Undecodable(crDefault) /\ Undecodable(crChanged)) => Returned(EmptyMap)
        /\ (Undecodable(crDefault) \/ Undecodable(crChanged)) => crResult # Panic

(***************************************************************************)
(* Properties of the change detection.                                     *)
(***************************************************************************)
HashCalled == hRet # NoHashes
CalledTwice == hPrev # NoCall

\* the fingerprint annotation a live document carries, "" when it is
\* absent or has no annotations or no fingerprint key
Recorded(doc) ==
    IF doc = NilPointer THEN ""
    ELSE LET meta == Lookup(doc[2], "metadata")
             annos == IF IsMap(meta) THEN Lookup(meta[2], "annotations") ELSE Null
         IN IF IsMap(annos) /\ HashedData \in DOMAIN annos[2]
            THEN annos[2][HashedData][2]
            ELSE ""

C17_WitnessNil ==
    /\ HashCalled
    /\ hCluster = NilPointer
    /\ ~hRet.err /\ ~hRet.panic
    /\ hRet.clusterHash = ""
    /\ hRet.templateHash # ""

HexDigitSet ==
    {"0", "1", "2", "3", "4", "5", "6", "7", "8", "9", "a", "b", "c", "d", "e", "f"}

\* C18: the new fingerprint depends on the template alone: a second call
\* with the same template and any live document returns the same second
\* result, and a fingerprint that is returned is a string of 14
\* hexadecimal characters.
C18_FingerprintOfTemplateAlone ==
    /\ (HashCalled /\ ~hRet.err /\ ~hRet.panic) =>
          /\ Len(hRet.templateHash) = 14
          /\ \A i \in 1..14 : SubSeq(hRet.templateHash, i, i) \in HexDigitSet
    /\ CalledTwice =>
          /\ hRet.templateHash = hPrev.ret.templateHash
          /\ hRet.err = hPrev.ret.err
          /\ hRet.panic = hPrev.ret.panic

\* two calls with the same template returned the same fingerprint for an
\* absent live document and for one that records a fingerprint
C18_Witness ==
    /\ CalledTwice
    /\ hPrev.cluster = NilPointer
    /\ hCluster # NilPointer
    /\ Recorded(hCluster) = "deadbeef1234"
    /\ ~hRet.err
    /\ Len(hRet.templateHash) = 14
    /\ hRet.templateHash = hPrev.ret.templateHash

\* C19: CalculateHashes leaves both arguments as they were: after the call,
\* on success and on error, the live and the template document are deeply
\* equal to what they were before it, and no fingerprint annotation was
\* added to either.
C19_HashInputsUnchanged ==
    HashCalled =>
        /\ DeepEqual(hRet.cluster, hCluster)
        /\ DeepEqual(hRet.template, hTemplate)
        /\ Recorded(hRet.template) = Recorded(hTemplate)

\* a new fingerprint was returned for a template and a live document that
\* both carry no annotations
C19_Witness ==
    /\ HashCalled
    /\ ~hRet.err /\ ~hRet.panic
    /\ hRet.templateHash # ""
    /\ hCluster # NilPointer
    /\ "metadata" \notin DOMAIN hCluster[2]
    /\ "metadata" \notin DOMAIN hTemplate[2]
    /\ "spec" \in DOMAIN hTemplate[2]

\* the call returned an error
C19_WitnessError == HashCalled /\ hRet.err /\ hRet.template = hTemplate

\* C20: when the template cannot be serialized, CalculateHashes returns an
\* error and the empty string for both fingerprints, even when the live
\* document records a fingerprint; it does not panic.
C20_SerializationErrorReturned ==
    (HashCalled /\ YAMLFault(hTemplate) # "ok") =>
        /\ ~hRet.panic
        /\ hRet.err
        /\ hRet.clusterHash = ""
        /\ hRet.templateHash = ""

(***************************************************************************)
(* Properties of the fingerprint annotation and of a whole pass.           *)
(***************************************************************************)
Annotated == ppc \in {"recorded", "checked"}

\* the metadata of a document and its annotations, as maps (empty when the
\* document has none)
MetaOf(doc) ==
    IF IsMap(Lookup(doc[2], "metadata")) THEN Lookup(doc[2], "metadata")[2] ELSE EmptyMap
AnnotationsOf(doc) ==
    IF IsMap(Lookup(MetaOf(doc), "annotations"))
    THEN Lookup(MetaOf(doc), "annotations")[2]
    ELSE EmptyMap

\* C21: SetHashAnnotation sets the fingerprint key of the document's
\* annotations to the given value, creating the annotation map when there
\* is none, and leaves every other annotation key, every other metadata key
\* and every other top-level key of the document as it was.
C21_SetHashAnnotation ==
    Annotated =>
        /\ Lookup(AnnotationsOf(pRecorded), HashedData) = Str(pHash.templateHash)
        /\ DOMAIN AnnotationsOf(pRecorded) = DOMAIN AnnotationsOf(pMerged) \cup {HashedData}
        /\ \A k \in DOMAIN AnnotationsOf(pMerged) \ {HashedData} :
              AnnotationsOf(pRecorded)[k] = AnnotationsOf(pMerged)[k]
        /\ \A k \in DOMAIN MetaOf(pMerged) \ {"annotations"} :
              Lookup(MetaOf(pRecorded), k) = MetaOf(pMerged)[k]
        /\ \A k \in DOMAIN pMerged[2] \ {"metadata"} :
              Lookup(pRecorded[2], k) = pMerged[2][k]
        /\ DOMAIN pRecorded[2] = DOMAIN pMerged[2] \cup {"metadata"}

\* C22: after a pass that took h as the new fingerprint, merged the live
\* document with the template and recorded h on the result, the next
\* CalculateHashes on that result and the same template returns h as the
\* existing and as the new fingerprint.
C22_RoundTrip ==
    ppc = "checked" =>
        /\ ~pRet.err /\ ~pRet.panic
        /\ pRet.templateHash = pHash.templateHash
        /\ pRet.clusterHash = pHash.templateHash

\* C23: MergeResources returns an error and no document when the live or
\* the template document cannot be serialized to JSON, and returns a
\* document and no error for every pair of serializable documents.
C23_MergeResourcesError ==
    mpc # "start" =>
        /\ (~Serializable(live) \/ ~Serializable(template)) =>
              merged.err /\ ~merged.panic /\ merged.obj = Null
        /\ (Serializable(live) /\ Serializable(template)) =>
              ~merged.err /\ ~merged.panic /\ IsMap(merged.obj)

(***************************************************************************)
(* Properties of GetRedisInfo.                                             *)
(***************************************************************************)
RedisCalled == redisRet # NoInfo

\* C24: GetRedisInfo returns the host name and the port of a parsable URL,
\* the port "6379" when the URL names none, and an error with an empty
\* host name and an empty port when the URL cannot be parsed.
C24_GetRedisInfo ==
    RedisCalled =>
        /\ \A c \in Schemes, u \in Userinfos, h \in Hosts, p \in Ports, t \in Tails :
              redisURL = Assemble(c, u, h, p, t) =>
                  /\ ~redisRet.err
                  /\ redisRet.hostname = h.name
                  /\ redisRet.port = IF p = "" THEN "6379" ELSE p
        /\ Parse(redisURL).err <=>
              redisRet.err
        /\ redisRet.err => redisRet.hostname = "" /\ redisRet.port = ""
        /\ redisURL \in {"://invalid", "10.0.0.1:6379", "redis://localhost:port",
                         "redis://local host:6379", "redis://[::1"} => redisRet.err
        /\ redisURL = "redis://localhost:/0" =>
              redisRet = [hostname |-> "localhost", port |-> "6379", err |-> FALSE]

C24_Witness ==
    /\ RedisCalled
    /\ redisURL = "redis://user:pw@[::1]:6380/0?ssl=true"
    /\ redisRet = [hostname |-> "::1", port |-> "6380", err |-> FALSE]

C24_WitnessDefault ==
    /\ RedisCalled
    /\ redisURL = "redis://localhost/0"
    /\ redisRet.port = "6379"

C24_WitnessError ==
    /\ RedisCalled
    /\ redisURL = "://invalid"
    /\ redisRet = [hostname |-> "", port |-> "", err |-> TRUE]

(***************************************************************************)
(* Properties of the terminal predicates of the waits.                     *)
(***************************************************************************)
\* the wait polled, and its last fetch returned an object
Fetched(w, k) == kind[w] = k /\ polls[w] > 0 /\ lastFetch[w].err = ErrNil

\* the wait goes on polling after its last fetch, up to the timeout
KeepsPolling(w) ==
    /\ ret[w] \in {Pending, ErrWaitTimeout}
    /\ ret[w] = ErrWaitTimeout => ticks[w] = MaxTicks(kind[w])

\* C25: WaitForOperandReady returns success at the first poll whose fetched
\* OperandRequest has every entry of status.services Ready, an empty list
\* included, and keeps polling while one entry has another status.
C25_OperandAllReady ==
    \A w \in WaitIds :
        /\ Fetched(w, "Operand") =>
              LET services == lastFetch[w].obj.services
              IN /\ (\A i \in 1..Len(services) : services[i] = "Ready") =>
                        ret[w] = ErrNil /\ polls[w] = notReady[w] + 1
                 /\ (\E i \in 1..Len(services) : services[i] # "Ready") =>
                        KeepsPolling(w)
                 /\ services = <<>> => ret[w] = ErrNil
        /\ (kind[w] = "Operand" /\ ret[w] = ErrNil) => Fetched(w, "Operand")

\* the wait succeeded at once on an OperandRequest without services
C25_Witness ==
    \E w \in WaitIds :
        /\ Fetched(w, "Operand")
        /\ lastFetch[w].obj.services = <<>>
        /\ polls[w] = 1 /\ ticks[w] = 0
        /\ ret[w] = ErrNil

\* the wait succeeded on two ready services after a poll that saw one of
\* them failed
C25_WitnessServices ==
    \E w \in WaitIds :
        /\ Fetched(w, "Operand")
        /\ lastFetch[w].obj.services = <<"Ready", "Ready">>
        /\ notReady[w] = 1 /\ polls[w] = 2
        /\ ret[w] = ErrNil

\* C26: WaitForDeploymentReady decides on the first deployment of the
\* listing whose name starts with the prefix: it returns success at the
\* first poll where that deployment has as many ready as desired replicas,
\* and keeps polling when it has not or when no name has the prefix,
\* whatever the other deployments with the prefix are like.
C26_FirstMatchDecides ==
    \A w \in WaitIds :
        /\ Fetched(w, "Deployment") =>
              LET items == lastFetch[w].obj
                  matches(i) == HasPrefix(items[i].name, param[w])
              IN /\ \A m \in 1..Len(items) :
                        (matches(m) /\ \A j \in 1..(m - 1) : ~matches(j)) =>
                            IF items[m].readyReplicas = items[m].replicas
                            THEN ret[w] = ErrNil
                            ELSE KeepsPolling(w)
                 /\ (\A i \in 1..Len(items) : ~matches(i)) => KeepsPolling(w)
        /\ (kind[w] = "Deployment" /\ ret[w] = ErrNil) => Fetched(w, "Deployment")

\* two deployments have the prefix, the first is short of replicas and the
\* second is ready: the wait keeps polling
C26_Witness ==
    \E w \in WaitIds :
        /\ Fetched(w, "Deployment")
        /\ Len(lastFetch[w].obj) = 2
        /\ \A i \in 1..2 : HasPrefix(lastFetch[w].obj[i].name, param[w])
        /\ lastFetch[w].obj[1].readyReplicas # lastFetch[w].obj[1].replicas
        /\ lastFetch[w].obj[2].readyReplicas = lastFetch[w].obj[2].replicas
        /\ ret[w] = Pending

\* the first match is the second deployment of the listing and is ready
C26_WitnessReady ==
    \E w \in WaitIds :
        /\ Fetched(w, "Deployment")
        /\ Len(lastFetch[w].obj) = 2
        /\ ~HasPrefix(lastFetch[w].obj[1].name, param[w])
        /\ HasPrefix(lastFetch[w].obj[2].name, param[w])
        /\ ret[w] = ErrNil

\* C27: WaitForRediscp returns success exactly at the first poll where the
\* fetched resource has a status subtree whose redisStatus is the caller's
\* sentinel; without a status subtree, or with another or no redisStatus,
\* the resource is not ready and the wait keeps polling without an error.
C27_RediscpSentinel ==
    \A w \in WaitIds :
        /\ Fetched(w, "Rediscp") =>
              LET cr == lastFetch[w].obj
              IN IF cr.hasStatus /\ cr.redisStatus = param[w]
                 THEN ret[w] = ErrNil
                 ELSE KeepsPolling(w)
        /\ (kind[w] = "Rediscp" /\ ret[w] = ErrNil) =>
              /\ Fetched(w, "Rediscp")
              /\ lastFetch[w].obj.redisStatus = param[w]

\* the wait returned success on the sentinel after a poll that found the
\* resource not ready
C27_Witness ==
    \E w \in WaitIds :
        /\ Fetched(w, "Rediscp")
        /\ lastFetch[w].obj = [hasStatus |-> TRUE, redisStatus |-> param[w]]
        /\ notReady[w] > 0
        /\ ret[w] = ErrNil

\* a status subtree with another redisStatus: the wait polls on
C27_WitnessOther ==
    \E w \in WaitIds :
        /\ Fetched(w, "Rediscp")
        /\ lastFetch[w].obj.hasStatus
        /\ lastFetch[w].obj.redisStatus \notin {param[w], NilValue}
        /\ ret[w] = Pending

\* C28: every wait fetches for the first time before any interval has
\* elapsed; when that fetch finds the target ready the wait returns success
\* after this one fetch, without waiting an interval.
C28_FirstFetchImmediate ==
    \A w \in WaitIds :
        /\ polls[w] = 0 => ticks[w] = 0
        /\ polls[w] = 1 => ticks[w] = 0
        /\ (polls[w] = 1 /\ lastFetch[w].err = ErrNil
              /\ TargetReady(kind[w], param[w], lastFetch[w].obj)) =>
              ret[w] = ErrNil
        /\ (ret[w] = ErrNil /\ notReady[w] = 0 /\ seen[w] = {"Ready"}) =>
              polls[w] = 1 /\ ticks[w] = 0

\* a wait returned success from its first fetch, no interval elapsed
C28_Witness ==
    \E w \in WaitIds :
        /\ polls[w] = 1 /\ ticks[w] = 0
        /\ seen[w] = {"Ready"}
        /\ ret[w] = ErrNil

\* C29: when both documents hold a sequence at the same key, the merged
\* sequence has the template's length and every element of it that is not a
\* mapping is the template's element, so no live element at an index the
\* template sequence lacks is in the result; the live sequence is taken
\* whole only when the template has no value at the key.
C29_SequenceLength ==
    LET l == Lookup(LiveMap, "spec")
        t == Lookup(TemplateMap, "spec")
        r == Lookup(MergedMap, "spec")
    IN (Merged /\ IsSeq(l)) =>
          /\ IsSeq(t) =>
                /\ IsSeq(r)
                /\ Len(r[2]) = Len(t[2])
                /\ \A i \in 1..Len(r[2]) :
                      (~IsMap(r[2][i]) \/ ~IsMap(t[2][i])) => r[2][i] = t[2][i]
          /\ IsNil(t) => r = l
          /\ (~IsNil(t) /\ ~IsSeq(t)) => r = t

\* the live sequence is longer than the template's, and differs from it at
\* the first index too
C29_Witness ==
    LET l == Lookup(LiveMap, "spec")
        t == Lookup(TemplateMap, "spec")
        r == Lookup(MergedMap, "spec")
    IN /\ Merged /\ IsSeq(l) /\ IsSeq(t)
       /\ Len(l[2]) = 2 /\ Len(t[2]) = 1
       /\ l[2][1] # t[2][1]
       /\ Len(r[2]) = 1

\* the template has no spec and the live sequence is taken whole
C29_WitnessWhole ==
    /\ Merged
    /\ "spec" \notin DOMAIN TemplateMap
    /\ IsSeq(Lookup(LiveMap, "spec"))
    /\ Len(Lookup(LiveMap, "spec")[2]) = 2
    /\ Lookup(MergedMap, "spec") = Lookup(LiveMap, "spec")

(***************************************************************************)
(* Properties of the image cache.                                          *)
(***************************************************************************)
\* C30: the image cache is filled at most once: however many calls of
\* Initialize there are and however they interleave, the function that
\* fills the cache runs a single time; once it has returned no step
\* changes the cache, whatever the environment has become; and the cache
\* changes in no step other than a turn of that function's loop, so Get
\* and ReplaceInYAML never modify it.
C30_InitializedOnce ==
    /\ [](fills <= 1)
    /\ [][initOnce.done => (imageMap' = imageMap /\ initOnce'.done)]_vars
    /\ [][imageMap' # imageMap =>
            /\ fills = 1
            /\ \E c \in Callers : initOnce.m = c /\ ipc[c][1] = "loop"
            /\ iret' = iret]_vars

\* Initialize was called three times by two goroutines, the environment
\* has changed since the cache was filled, and Get has read the cache
C30_Witness ==
    /\ inits = 3
    /\ fills = 1
    /\ initOnce.done
    /\ \A c \in Callers : ipc[c] = AtRest
    /\ \E n \in ImageNames :
          /\ imageMap[n] \notin {Unset, environ[n]}
          /\ iret = <<"Get", n, imageMap[n]>>

\* two goroutines were in Initialize at once: one fills the cache, the
\* other waits for the lock
C30_WitnessConcurrent ==
    \E c, d \in Callers : ipc[c][1] = "loop" /\ ipc[d] = <<"doSlow">>

====
